---- MODULE Spec2Model ----
(***************************************************************************)
(* Model of the rdwm window-manager engine: Workspace (src/workspace.rs),  *)
(* the layout strategies (src/layout) and the decision layer State         *)
(* (src/state.rs).  Workspace and State methods are operators over values, *)
(* written statement by statement after the Rust code; one action per      *)
(* public State operation applies them to the variables.                   *)
(*                                                                         *)
(* Conventions: Option::None is None (0) for windows and NoWs (-1) for     *)
(* workspace indices; window ids are 1..MaxWindows; positions in a client  *)
(* list are 1-based (Rust index + 1).                                      *)
(***************************************************************************)
EXTENDS Integers, Sequences, FiniteSets, TLC

\* ---------------------------------------------------------------- constants
NUM_WORKSPACES == 10
DEFAULT_BORDER_WIDTH == 1
DEFAULT_WINDOW_GAP == 0
DEFAULT_DOCK_HEIGHT == 30
ScreenWidth == 800
ScreenHeight == 600
FocusedBorderPixel == 0
NormalBorderPixel == 1

\* ------------------------------------------------------------------- bounds
MaxWindows == 2
MaxWs == 2
MaxTiling == 1
MaxDocks == 1

None == 0
NoWs == -1
Windows == 1..MaxWindows
WsIds == 0..(NUM_WORKSPACES - 1)
\* workspace arguments offered to the operations: the first MaxWs indices
\* and the first index that is out of range
WsArgs == (0..(MaxWs - 1)) \cup {NUM_WORKSPACES}
Steps == {1, 2}
WindowTypes == {"Dock", "Managed", "Unmanaged"}
LayoutTypes == <<"HorizontalLayout", "MasterLayout">>

\* u32 arithmetic.  A u32 value v is represented by v itself below 2^31 and
\* by v - 2^32 (its two's complement reading, a negative number) from 2^31
\* on, so a subtraction that wraps yields a negative representative.
ULess(a, b) ==
    \/ a >= 0 /\ b >= 0 /\ a < b
    \/ a >= 0 /\ b < 0
    \/ a < 0 /\ b < 0 /\ a < b
UMax(a, b) == IF ULess(a, b) THEN b ELSE a
SatSub(a, b) == IF ULess(a, b) THEN 0 ELSE a - b
\* u32::saturating_add on representatives: the sum sticks at u32::MAX (-1)
SatAdd(a, b) ==
    IF a >= 0 /\ b >= 0
    THEN IF a > 2147483647 - b
         THEN (a - 2147483647 - 1) + (b - 2147483647 - 1)
         ELSE a + b
    ELSE IF a < 0 /\ b < 0 THEN -1
    ELSE IF a + b >= 0 THEN -1 ELSE a + b
Sub32(a, b) == a - b
Mul32(a, b) == a * b
Add32(a, b) == a + b

\* ------------------------------------------------------------------ Client
\* variant of Client::new that starts a client at weight 2
Client_new_weight_two(window) == [window |-> window, size |-> 2, is_mapped |-> TRUE]

Client_new(window) == [window |-> window, size |-> 1, is_mapped |-> TRUE]

\* variant whose addition wraps instead of saturating
increase_window_size_wrapping(client, increment) ==
    [client EXCEPT !.size = Add32(client.size, increment)]

increase_window_size(client, increment) ==
    [client EXCEPT !.size = SatAdd(client.size, increment)]

decrease_window_size(client, decrement) ==
    [client EXCEPT !.size = UMax(SatSub(client.size, decrement), 1)]

\* --------------------------------------------------------------- Workspace
Workspace_default == [clients |-> <<>>, focus |-> None, fullscreen |-> None]

number_of_clients(ws) == Len(ws.clients)

contains_key(ws, window) ==
    \E i \in DOMAIN ws.clients : ws.clients[i].window = window

\* position of the window in insertion order, 0 when absent
index_of_window(ws, window) ==
    IF contains_key(ws, window)
    THEN CHOOSE i \in DOMAIN ws.clients : ws.clients[i].window = window
    ELSE 0

get_window_at_index(ws, index) ==
    IF index \in DOMAIN ws.clients THEN ws.clients[index].window ELSE None

iter_windows(ws) == [i \in DOMAIN ws.clients |-> ws.clients[i].window]

is_window_mapped(ws, window) ==
    \E i \in DOMAIN ws.clients :
        ws.clients[i].window = window /\ ws.clients[i].is_mapped

\* the bool returned by Workspace::set_focus
\* variant of the acceptance test of Workspace::set_focus without the mapped flag
Workspace_set_focus_ok_any_client(ws, window) == contains_key(ws, window)

Workspace_set_focus_ok(ws, window) ==
    contains_key(ws, window) /\ is_window_mapped(ws, window)

Workspace_set_focus(ws, window) ==
    IF Workspace_set_focus_ok(ws, window)
    THEN [ws EXCEPT !.focus = window]
    ELSE ws

is_focus_valid(ws) ==
    IF ws.focus # None THEN contains_key(ws, ws.focus) ELSE TRUE

first_mapped(ws) ==
    IF \E i \in DOMAIN ws.clients : ws.clients[i].is_mapped
    THEN LET i == CHOOSE j \in DOMAIN ws.clients :
                      /\ ws.clients[j].is_mapped
                      /\ \A k \in 1..(j - 1) : ~ws.clients[k].is_mapped
         IN ws.clients[i].window
    ELSE None

update_focus(ws) ==
    LET ws1 == IF ws.fullscreen # None
               THEN IF Workspace_set_focus_ok(ws, ws.fullscreen)
                    THEN Workspace_set_focus(ws, ws.fullscreen)
                    ELSE [ws EXCEPT !.fullscreen = None]
               ELSE ws
    IN IF ws1.clients = <<>>
       THEN [ws1 EXCEPT !.focus = None]
       ELSE IF ~is_focus_valid(ws1)
            THEN [ws1 EXCEPT !.focus = first_mapped(ws1)]
            ELSE ws1

\* variant of update_focus_if_invalid without the closing update_focus
update_focus_if_invalid_only(ws, candidate_window) ==
    IF ~is_focus_valid(ws) THEN Workspace_set_focus(ws, candidate_window) ELSE ws

update_focus_if_invalid(ws, candidate_window) ==
    update_focus(IF ~is_focus_valid(ws)
                 THEN Workspace_set_focus(ws, candidate_window)
                 ELSE ws)

\* variant of set_fullscreen that records the mark without the focus repair
set_fullscreen_unrepaired(ws, window) ==
    IF contains_key(ws, window)
    THEN [ws EXCEPT !.fullscreen = window]
    ELSE ws

set_fullscreen(ws, window) ==
    IF contains_key(ws, window)
    THEN update_focus([ws EXCEPT !.fullscreen = window])
    ELSE ws

\* variant of clear_fullscreen that repairs the focus and keeps the mark
clear_fullscreen_keeps_mark(ws) == update_focus(ws)

clear_fullscreen(ws) == update_focus([ws EXCEPT !.fullscreen = None])

\* variant of set_client_mapped that writes the flag without the focus repair
set_client_mapped_unrepaired(ws, window, mapped) ==
    [ws EXCEPT !.clients =
        [i \in DOMAIN ws.clients |->
            IF ws.clients[i].window = window
            THEN [ws.clients[i] EXCEPT !.is_mapped = mapped]
            ELSE ws.clients[i]]]

set_client_mapped(ws, window, mapped) ==
    update_focus(
        [ws EXCEPT !.clients =
            [i \in DOMAIN ws.clients |->
                IF ws.clients[i].window = window
                THEN [ws.clients[i] EXCEPT !.is_mapped = mapped]
                ELSE ws.clients[i]]])

\* IndexMap::insert: a new key is appended, an existing key keeps its
\* position and has its value replaced
IndexMap_insert(clients, window, client) ==
    IF \E i \in DOMAIN clients : clients[i].window = window
    THEN [i \in DOMAIN clients |->
            IF clients[i].window = window THEN client ELSE clients[i]]
    ELSE Append(clients, client)

\* variant of push_window that hands the focus to the pushed window
push_window_takes_focus(ws, window) ==
    [ws EXCEPT !.clients = IndexMap_insert(ws.clients, window, Client_new(window)),
               !.focus = window]

push_window(ws, window) ==
    LET ws1 == [ws EXCEPT !.clients = IndexMap_insert(ws.clients, window, Client_new(window))]
        ws2 == IF ws1.focus = None THEN Workspace_set_focus(ws1, window) ELSE ws1
    IN update_focus(ws2)

\* IndexMap::shift_remove: the later clients move up by one
shift_remove(clients, window) ==
    SelectSeq(clients, LAMBDA c : c.window # window)

\* variant of remove_client that drops the client and leaves the focus alone
remove_client_keeps_focus(ws, window) ==
    [ws EXCEPT !.clients = shift_remove(ws.clients, window)]

remove_client(ws, window) ==
    LET idx_to_remove == index_of_window(ws, window)
        ws1 == [ws EXCEPT !.clients = shift_remove(ws.clients, window)]
        \* Rust indices are 0-based: index = idx_to_remove - 1
        new_index == IF idx_to_remove - 1 < number_of_clients(ws1)
                     THEN idx_to_remove - 1
                     ELSE SatSub(number_of_clients(ws1), 1)
        candidate == get_window_at_index(ws1, new_index + 1)
    IN IF idx_to_remove # 0
       THEN IF candidate # None
            THEN update_focus_if_invalid(ws1, candidate)
            ELSE update_focus(ws1)
       ELSE ws1

\* the window returned by Workspace::removed_focused_window
removed_focused_window_result(ws) ==
    IF ws.focus # None /\ contains_key(ws, ws.focus) THEN ws.focus ELSE None

removed_focused_window(ws) ==
    IF ws.focus # None THEN remove_client(ws, ws.focus) ELSE ws

\* variant that always steps forward
next_index_forward(index, direction, length) ==
    (index % length) + 1

next_index(index, direction, length) ==
    ((index - 1 + direction) % length) + 1

RECURSIVE next_mapped_scan(_, _, _, _)
next_mapped_scan(ws, index, direction, nxt) ==
    IF nxt = index THEN None
    ELSE IF ws.clients[nxt].is_mapped THEN ws.clients[nxt].window
    ELSE next_mapped_scan(ws, index, direction,
                          next_index(nxt, direction, Len(ws.clients)))

next_mapped_window(ws, direction) ==
    IF ws.focus # None /\ index_of_window(ws, ws.focus) # 0
    THEN LET index == index_of_window(ws, ws.focus)
         IN next_mapped_scan(ws, index, direction,
                             next_index(index, direction, Len(ws.clients)))
    ELSE None

swap_windows(ws, window_a, window_b) ==
    LET idx_a == index_of_window(ws, window_a)
        idx_b == index_of_window(ws, window_b)
    IN IF idx_a # 0 /\ idx_b # 0
       THEN [ws EXCEPT !.clients =
                [i \in DOMAIN ws.clients |->
                    IF i = idx_a THEN ws.clients[idx_b]
                    ELSE IF i = idx_b THEN ws.clients[idx_a]
                    ELSE ws.clients[i]]]
       ELSE ws

\* ------------------------------------------------------------------ Effect
Map(window) == [tag |-> "Map", window |-> window]
Unmap(window) == [tag |-> "Unmap", window |-> window]
Focus(window) == [tag |-> "Focus", window |-> window]
Raise(window) == [tag |-> "Raise", window |-> window]
Configure(window, x, y, w, h, border) ==
    [tag |-> "Configure", window |-> window, x |-> x, y |-> y, w |-> w, h |-> h,
     border |-> border]
ConfigurePositionSize(window, x, y, w, h) ==
    [tag |-> "ConfigurePositionSize", window |-> window, x |-> x, y |-> y,
     w |-> w, h |-> h]
SetBorder(window, pixel, width) ==
    [tag |-> "SetBorder", window |-> window, pixel |-> pixel, width |-> width]
KillClient(window) == [tag |-> "KillClient", window |-> window]
SendWmDelete(window) == [tag |-> "SendWmDelete", window |-> window]

\* ------------------------------------------------------------------ layout
Rect(x, y, w, h) == [x |-> x, y |-> y, w |-> w, h |-> h]

\* the subtraction wraps when dim < 2 * border; max(1) compares unsigned
pad(dim, border) == UMax(Sub32(dim, Mul32(2, border)), 1)

RECURSIVE SumSeq(_)
SumSeq(seq) == IF seq = <<>> THEN 0 ELSE Add32(Head(seq), SumSeq(Tail(seq)))

HorizontalLayout_generate_layout(area, weights, border_width, window_gap) ==
    LET total_weights == SumSeq(weights)
        total_border == Add32(border_width, window_gap)
        inner_h == pad(area.h, total_border)
        partitions == area.w \div total_weights
        cumulative(i) == SumSeq(SubSeq(weights, 1, i - 1))
    IN [i \in DOMAIN weights |->
            LET cell == Mul32(area.w, weights[i]) \div total_weights
                inner_w == pad(cell, total_border)
                x == Add32(Mul32(cumulative(i), partitions), window_gap)
            IN Rect(x, window_gap, inner_w, inner_h)]

\* the (prev_x, prev_y, prev_w, prev_h) cursor before the i-th client
RECURSIVE MasterLayout_cursor(_, _, _)
MasterLayout_cursor(area, window_gap, i) ==
    IF i = 1
    THEN [x |-> window_gap, y |-> window_gap,
          w |-> Sub32(area.w, window_gap), h |-> Sub32(area.h, window_gap)]
    ELSE LET p == MasterLayout_cursor(area, window_gap, i - 1)
         IN IF (i - 2) % 2 = 0
            THEN [p EXCEPT !.x = Add32(p.x, p.w \div 2), !.w = p.w \div 2]
            ELSE [p EXCEPT !.y = Add32(p.y, p.h \div 2), !.h = p.h \div 2]

MasterLayout_generate_layout(area, weights, border_width, window_gap) ==
    LET total_border == Add32(border_width, window_gap \div 2)
    IN [i \in DOMAIN weights |->
            LET p == MasterLayout_cursor(area, window_gap, i)
            IN IF i = Len(weights)
               THEN Rect(p.x, p.y, pad(p.w, total_border), pad(p.h, total_border))
               ELSE IF (i - 1) % 2 = 0
                    THEN Rect(p.x, p.y, pad(p.w \div 2, total_border), pad(p.h, total_border))
                    ELSE Rect(p.x, p.y, pad(p.w, total_border), pad(p.h \div 2, total_border))]

\* the subtraction in pad underflows
pad_underflows(dim, border) == ULess(dim, Mul32(2, border))

\* Cargo profiles: arithmetic overflow panics under "debug" and wraps under
\* "release"; a division by zero panics under both
Builds == {"debug", "release"}

HorizontalLayout_panics(area, weights, border_width, window_gap, build) ==
    LET total_weights == SumSeq(weights)
        total_border == Add32(border_width, window_gap)
    IN \/ total_weights = 0
       \/ /\ build = "debug"
          /\ \/ pad_underflows(area.h, total_border)
             \/ \E i \in DOMAIN weights :
                    pad_underflows(Mul32(area.w, weights[i]) \div total_weights,
                                   total_border)

MasterLayout_panics(area, weights, border_width, window_gap, build) ==
    LET total_border == Add32(border_width, window_gap \div 2)
    IN /\ build = "debug"
       /\ \/ ULess(area.h, window_gap)
          \/ ULess(area.w, window_gap)
          \/ \E i \in DOMAIN weights :
                LET p == MasterLayout_cursor(area, window_gap, i)
                IN IF i = Len(weights)
                   THEN pad_underflows(p.w, total_border)
                        \/ pad_underflows(p.h, total_border)
                   ELSE IF (i - 1) % 2 = 0
                        THEN pad_underflows(p.w \div 2, total_border)
                             \/ pad_underflows(p.h, total_border)
                        ELSE pad_underflows(p.w, total_border)
                             \/ pad_underflows(p.h \div 2, total_border)

generate_layout_panics(layout, area, weights, border_width, window_gap, build) ==
    IF layout = LayoutTypes[1]
    THEN HorizontalLayout_panics(area, weights, border_width, window_gap, build)
    ELSE MasterLayout_panics(area, weights, border_width, window_gap, build)

generate_layout(layout, area, weights, border_width, window_gap) ==
    IF layout = "HorizontalLayout"
    THEN HorizontalLayout_generate_layout(area, weights, border_width, window_gap)
    ELSE MasterLayout_generate_layout(area, weights, border_width, window_gap)

LayoutManager_cycle_layout(current_layout) ==
    LET current_idx == CHOOSE i \in DOMAIN LayoutTypes : LayoutTypes[i] = current_layout
    IN LayoutTypes[(current_idx % Len(LayoutTypes)) + 1]

\* ------------------------------------------------------------------- State
\* A State value is a record of the struct's mutable fields; the screen,
\* border_width and dock_height never change after State::new.
State_new ==
    [workspaces |-> [i \in WsIds |-> Workspace_default],
     window_to_workspace |-> << >>,
     current_workspace |-> 0,
     window_gap |-> DEFAULT_WINDOW_GAP,
     dock_windows |-> << >>,
     current_layout |-> "HorizontalLayout"]

\* the result of a State method: the state afterwards and the Vec<Effect>
R(s, effects) == [s |-> s, effects |-> effects]

\* workspaces.get(id); the expect() on the current workspace would panic
\* for an index out of range, here the lookup yields an empty workspace
get_workspace(s, workspace_id) ==
    IF workspace_id \in WsIds THEN s.workspaces[workspace_id] ELSE Workspace_default

current_workspace_of(s) == get_workspace(s, s.current_workspace)

\* assignment through workspaces.get_mut(id)
put_workspace(s, workspace_id, ws) ==
    IF workspace_id \in WsIds
    THEN [s EXCEPT !.workspaces[workspace_id] = ws]
    ELSE s

window_workspace(s, window) ==
    IF window \in DOMAIN s.window_to_workspace
    THEN s.window_to_workspace[window]
    ELSE NoWs

HashMap_insert(m, k, v) == (k :> v) @@ m

\* variant of HashMap_remove that keeps the entry
HashMap_remove_kept(m, k) == m

HashMap_remove(m, k) == [x \in (DOMAIN m) \ {k} |-> m[x]]

\* the (workspace, id) sort key of managed_windows_sorted compares as a tuple
EntryLessEq(s, a, b) ==
    \/ s.window_to_workspace[a] < s.window_to_workspace[b]
    \/ s.window_to_workspace[a] = s.window_to_workspace[b] /\ a <= b

\* sort_by_key over the entries collected from the HashMap: the keys differ
\* pairwise, so the sorted order does not depend on the iteration order
RECURSIVE sort_entries(_, _)
sort_entries(s, windows) ==
    IF windows = {} THEN << >>
    ELSE LET first == CHOOSE a \in windows : \A b \in windows : EntryLessEq(s, a, b)
         IN << first >> \o sort_entries(s, windows \ {first})

managed_windows_sorted(s) == sort_entries(s, DOMAIN s.window_to_workspace)

\* Vec::sort_by_key(resource_id): stable, equal ids keep their order
RECURSIVE sort_by_resource_id(_)
sort_by_resource_id(seq) ==
    IF seq = << >> THEN << >>
    ELSE LET rest == sort_by_resource_id(Tail(seq))
             before == SelectSeq(rest, LAMBDA w : w < Head(seq))
             after == SelectSeq(rest, LAMBDA w : w >= Head(seq))
         IN before \o << Head(seq) >> \o after

client_list_windows(s) ==
    managed_windows_sorted(s) \o sort_by_resource_id(s.dock_windows)

is_dock(s, window) ==
    \E i \in DOMAIN s.dock_windows : s.dock_windows[i] = window

tracked_window_type(s, window) ==
    IF is_dock(s, window) THEN "Dock"
    ELSE IF window_workspace(s, window) # NoWs THEN "Managed"
    ELSE "Unmanaged"

\* variant that never subtracts the dock height
usable_screen_height_ignores_docks(s) == ScreenHeight

usable_screen_height(s) ==
    IF s.dock_windows # << >>
    THEN SatSub(ScreenHeight, DEFAULT_DOCK_HEIGHT)
    ELSE ScreenHeight

configure_windows(s, workspace_id) ==
    IF workspace_id \notin WsIds THEN << >>
    ELSE
    LET ws == s.workspaces[workspace_id]
        clients == SelectSeq(ws.clients, LAMBDA c : c.is_mapped)
        weights == [i \in DOMAIN clients |-> clients[i].size]
        area == Rect(0, 0, ScreenWidth, usable_screen_height(s))
        layout == generate_layout(s.current_layout, area, weights,
                                  DEFAULT_BORDER_WIDTH, s.window_gap)
    IN IF ws.fullscreen # None /\ is_window_mapped(ws, ws.fullscreen)
       THEN << Configure(ws.fullscreen, 0, 0, ScreenWidth, ScreenHeight, 0),
               Raise(ws.fullscreen) >>
       ELSE IF clients = << >> THEN << >>
       ELSE [i \in DOMAIN clients |->
                Configure(clients[i].window, layout[i].x, layout[i].y,
                          layout[i].w, layout[i].h, DEFAULT_BORDER_WIDTH)]

\* configure_windows reaches the call of generate_layout: no mapped fullscreen
\* window and at least one client flagged mapped
calls_generate_layout(s, workspace_id) ==
    /\ workspace_id \in WsIds
    /\ LET ws == s.workspaces[workspace_id]
       IN /\ ~(ws.fullscreen # None /\ is_window_mapped(ws, ws.fullscreen))
          /\ \E k \in DOMAIN ws.clients : ws.clients[k].is_mapped

\* the weights configure_windows hands to generate_layout
layout_weights(s, workspace_id) ==
    LET clients == SelectSeq(s.workspaces[workspace_id].clients,
                             LAMBDA c : c.is_mapped)
    IN [i \in DOMAIN clients |-> clients[i].size]

configure_dock_windows(s) ==
    [i \in DOMAIN s.dock_windows |->
        ConfigurePositionSize(s.dock_windows[i], 0,
                              ScreenHeight - DEFAULT_DOCK_HEIGHT,
                              ScreenWidth, DEFAULT_DOCK_HEIGHT)]

\* variant of State::set_focus without the early return for a mapped fullscreen
set_focus_unpinned(s, window) ==
    LET cw == current_workspace_of(s)
        fullscreen_window == cw.fullscreen
        previous_focus == cw.focus
    IN IF Workspace_set_focus_ok(cw, window)
       THEN R(put_workspace(s, s.current_workspace, Workspace_set_focus(cw, window)),
              (IF previous_focus # None
               THEN << SetBorder(previous_focus, NormalBorderPixel,
                                 IF fullscreen_window = previous_focus
                                 THEN 0 ELSE DEFAULT_BORDER_WIDTH) >>
               ELSE << >>)
              \o << SetBorder(window, FocusedBorderPixel,
                              IF fullscreen_window = window
                              THEN 0 ELSE DEFAULT_BORDER_WIDTH),
                    Focus(window) >>
              \o (IF fullscreen_window = window THEN << Raise(window) >> ELSE << >>))
       ELSE R(s, << >>)

set_focus(s, window) ==
    LET cw == current_workspace_of(s)
        fullscreen_window == cw.fullscreen
        previous_focus == cw.focus
    IN IF cw.fullscreen # None /\ is_window_mapped(cw, cw.fullscreen)
       THEN R(s, << >>)
       ELSE IF Workspace_set_focus_ok(cw, window)
       THEN R(put_workspace(s, s.current_workspace, Workspace_set_focus(cw, window)),
              (IF previous_focus # None
               THEN << SetBorder(previous_focus, NormalBorderPixel,
                                 IF fullscreen_window = previous_focus
                                 THEN 0 ELSE DEFAULT_BORDER_WIDTH) >>
               ELSE << >>)
              \o << SetBorder(window, FocusedBorderPixel,
                              IF fullscreen_window = window
                              THEN 0 ELSE DEFAULT_BORDER_WIDTH),
                    Focus(window) >>
              \o (IF fullscreen_window = window THEN << Raise(window) >> ELSE << >>))
       ELSE R(s, << >>)

\* the "if let Some(focus) = current focus { set_focus(focus) }" tail
refocus(s) ==
    IF current_workspace_of(s).focus # None
    THEN set_focus(s, current_workspace_of(s).focus)
    ELSE R(s, << >>)

toggle_fullscreen(s) ==
    LET cw == current_workspace_of(s)
        focused == cw.focus
        toggle_off == cw.fullscreen = focused
        s1 == put_workspace(s, s.current_workspace,
                            IF toggle_off THEN clear_fullscreen(cw)
                            ELSE set_fullscreen(cw, focused))
        e1 == IF toggle_off THEN << >> ELSE << Raise(focused) >>
        e2 == configure_windows(s1, s1.current_workspace)
        r3 == set_focus(s1, focused)
    IN IF focused = None THEN R(s, << >>)
       ELSE R(r3.s, e1 \o e2 \o r3.effects)

\* set_client_mapped applied to the windows one after the other
RECURSIVE set_clients_mapped(_, _, _)
set_clients_mapped(ws, windows, mapped) ==
    IF windows = << >> THEN ws
    ELSE set_clients_mapped(set_client_mapped(ws, Head(windows), mapped),
                            Tail(windows), mapped)

\* variant of go_to_workspace that pushes the Map effects before the Unmaps
go_to_workspace_maps_first(s, new_workspace_id) ==
    IF s.current_workspace = new_workspace_id \/ new_workspace_id >= NUM_WORKSPACES
    THEN R(s, << >>)
    ELSE
    LET old_workspace_id == s.current_workspace
        old_windows == iter_windows(get_workspace(s, old_workspace_id))
        s1 == put_workspace(s, old_workspace_id,
                  set_clients_mapped(get_workspace(s, old_workspace_id), old_windows, FALSE))
        s2 == [s1 EXCEPT !.current_workspace = new_workspace_id]
        new_windows == iter_windows(current_workspace_of(s2))
        s3 == put_workspace(s2, s2.current_workspace,
                  set_clients_mapped(current_workspace_of(s2), new_windows, TRUE))
        r4 == refocus(s3)
    IN R(r4.s,
         [i \in DOMAIN new_windows |-> Map(new_windows[i])]
         \o [i \in DOMAIN old_windows |-> Unmap(old_windows[i])]
         \o configure_windows(s3, s3.current_workspace)
         \o r4.effects)

go_to_workspace(s, new_workspace_id) ==
    IF s.current_workspace = new_workspace_id \/ new_workspace_id >= NUM_WORKSPACES
    THEN R(s, << >>)
    ELSE
    LET old_workspace_id == s.current_workspace
        old_windows == iter_windows(get_workspace(s, old_workspace_id))
        s1 == put_workspace(s, old_workspace_id,
                  set_clients_mapped(get_workspace(s, old_workspace_id), old_windows, FALSE))
        s2 == [s1 EXCEPT !.current_workspace = new_workspace_id]
        new_windows == iter_windows(current_workspace_of(s2))
        s3 == put_workspace(s2, s2.current_workspace,
                  set_clients_mapped(current_workspace_of(s2), new_windows, TRUE))
        r4 == refocus(s3)
    IN R(r4.s,
         [i \in DOMAIN old_windows |-> Unmap(old_windows[i])]
         \o [i \in DOMAIN new_windows |-> Map(new_windows[i])]
         \o configure_windows(s3, s3.current_workspace)
         \o r4.effects)

\* variant of focus_window without the fullscreen check
focus_window_steals(s, window, desktop_hint) ==
    LET workspace_id == IF window_workspace(s, window) # NoWs
                        THEN window_workspace(s, window)
                        ELSE desktop_hint
        r1 == IF workspace_id < NUM_WORKSPACES /\ workspace_id # s.current_workspace
              THEN go_to_workspace(s, workspace_id)
              ELSE R(s, << >>)
        r2 == set_focus(r1.s, window)
    IN IF workspace_id = NoWs THEN R(s, << >>)
       ELSE R(r2.s, r1.effects \o r2.effects)

focus_window(s, window, desktop_hint) ==
    LET workspace_id == IF window_workspace(s, window) # NoWs
                        THEN window_workspace(s, window)
                        ELSE desktop_hint
        r1 == IF workspace_id < NUM_WORKSPACES /\ workspace_id # s.current_workspace
              THEN go_to_workspace(s, workspace_id)
              ELSE R(s, << >>)
        r2 == set_focus(r1.s, window)
    IN IF current_workspace_of(s).fullscreen # None THEN R(s, << >>)
       ELSE IF workspace_id = NoWs THEN R(s, << >>)
       ELSE R(r2.s, r1.effects \o r2.effects)

\* variant of send_to_workspace that only rejects an index beyond the array
send_to_workspace_unguarded(s, workspace_id) ==
    IF workspace_id >= NUM_WORKSPACES
    THEN R(s, << >>)
    ELSE
    LET cw == current_workspace_of(s)
        window_to_send == removed_focused_window_result(cw)
        s1 == put_workspace(s, s.current_workspace, removed_focused_window(cw))
        s2 == put_workspace(s1, workspace_id,
                  set_client_mapped(push_window(get_workspace(s1, workspace_id),
                                                window_to_send),
                                    window_to_send, FALSE))
        s3 == [s2 EXCEPT !.window_to_workspace =
                  HashMap_insert(s2.window_to_workspace, window_to_send, workspace_id)]
        r4 == refocus(s3)
    IN IF window_to_send = None THEN R(s1, << >>)
       ELSE R(r4.s,
              << Unmap(window_to_send),
                 SetBorder(window_to_send, NormalBorderPixel, DEFAULT_BORDER_WIDTH) >>
              \o configure_windows(s3, s3.current_workspace)
              \o r4.effects)

send_to_workspace(s, workspace_id) ==
    IF workspace_id >= NUM_WORKSPACES \/ workspace_id = s.current_workspace
    THEN R(s, << >>)
    ELSE
    LET cw == current_workspace_of(s)
        window_to_send == removed_focused_window_result(cw)
        s1 == put_workspace(s, s.current_workspace, removed_focused_window(cw))
        s2 == put_workspace(s1, workspace_id,
                  set_client_mapped(push_window(get_workspace(s1, workspace_id),
                                                window_to_send),
                                    window_to_send, FALSE))
        s3 == [s2 EXCEPT !.window_to_workspace =
                  HashMap_insert(s2.window_to_workspace, window_to_send, workspace_id)]
        r4 == refocus(s3)
    IN IF window_to_send = None THEN R(s1, << >>)
       ELSE R(r4.s,
              << Unmap(window_to_send),
                 SetBorder(window_to_send, NormalBorderPixel, DEFAULT_BORDER_WIDTH) >>
              \o configure_windows(s3, s3.current_workspace)
              \o r4.effects)

\* the client Workspace::get_focused_client_mut borrows
get_focused_client(s) ==
    LET cw == current_workspace_of(s)
    IN cw.clients[index_of_window(cw, cw.focus)]

\* writing through the borrowed focused client
put_focused_client(s, client) ==
    LET cw == current_workspace_of(s)
    IN put_workspace(s, s.current_workspace,
          [cw EXCEPT !.clients =
              [i \in DOMAIN cw.clients |->
                  IF cw.clients[i].window = cw.focus
                  THEN client ELSE cw.clients[i]]])

has_focused_client(s) ==
    LET cw == current_workspace_of(s)
    IN cw.focus # None /\ contains_key(cw, cw.focus)

increase_window_weight(s, increment) ==
    IF has_focused_client(s)
    THEN LET s1 == put_focused_client(s,
                       increase_window_size(get_focused_client(s), increment))
         IN R(s1, configure_windows(s1, s1.current_workspace))
    ELSE R(s, << >>)

decrease_window_weight(s, increment) ==
    IF has_focused_client(s)
    THEN LET s1 == put_focused_client(s,
                       decrease_window_size(get_focused_client(s), increment))
         IN R(s1, configure_windows(s1, s1.current_workspace))
    ELSE R(s, << >>)

increase_window_gap(s, increment) ==
    LET s1 == [s EXCEPT !.window_gap = Add32(s.window_gap, increment)]
    IN R(s1, configure_windows(s1, s1.current_workspace))

\* variant: the subtraction wraps instead of saturating
decrease_window_gap_wrapping(s, decrement) ==
    LET new_gap == Sub32(s.window_gap, decrement)
        s1 == [s EXCEPT !.window_gap = new_gap]
    IN IF new_gap = s.window_gap THEN R(s, << >>)
       ELSE R(s1, configure_windows(s1, s1.current_workspace))

decrease_window_gap(s, decrement) ==
    LET new_gap == SatSub(s.window_gap, decrement)
        s1 == [s EXCEPT !.window_gap = new_gap]
    IN IF new_gap = s.window_gap THEN R(s, << >>)
       ELSE R(s1, configure_windows(s1, s1.current_workspace))

shift_focus(s, direction) ==
    LET next_focus == next_mapped_window(current_workspace_of(s), direction)
    IN IF next_focus = None THEN R(s, << >>) ELSE set_focus(s, next_focus)

\* variant without the early return under a fullscreen mark
swap_window_under_fullscreen(s, direction) ==
    LET cw == current_workspace_of(s)
        next_window == next_mapped_window(cw, direction)
        s1 == put_workspace(s, s.current_workspace,
                            swap_windows(cw, cw.focus, next_window))
    IN IF next_window = None THEN R(s, << >>)
       ELSE IF cw.focus = None THEN R(s, << >>)
       ELSE R(s1, configure_windows(s1, s1.current_workspace))

swap_window(s, direction) ==
    LET cw == current_workspace_of(s)
        next_window == next_mapped_window(cw, direction)
        s1 == put_workspace(s, s.current_workspace,
                            swap_windows(cw, cw.focus, next_window))
    IN IF cw.fullscreen # None THEN R(s, << >>)
       ELSE IF next_window = None THEN R(s, << >>)
       ELSE IF cw.focus = None THEN R(s, << >>)
       ELSE R(s1, configure_windows(s1, s1.current_workspace))

cycle_layout(s) ==
    LET s1 == [s EXCEPT !.current_layout = LayoutManager_cycle_layout(s.current_layout)]
    IN R(s1, configure_windows(s1, s1.current_workspace))

handle_map_request_dock(s, window) ==
    LET s1 == IF ~is_dock(s, window)
              THEN [s EXCEPT !.dock_windows = Append(s.dock_windows, window)]
              ELSE s
    IN R(s1, << Map(window) >>
             \o configure_dock_windows(s1)
             \o configure_windows(s1, s1.current_workspace))

handle_map_request_managed(s, window) ==
    LET cw == current_workspace_of(s)
        s1 == IF contains_key(cw, window)
              THEN put_workspace(s, s.current_workspace,
                      [cw EXCEPT !.clients =
                          [i \in DOMAIN cw.clients |->
                              IF cw.clients[i].window = window
                              THEN [cw.clients[i] EXCEPT !.is_mapped = TRUE]
                              ELSE cw.clients[i]]])
              ELSE [put_workspace(s, s.current_workspace, push_window(cw, window))
                        EXCEPT !.window_to_workspace =
                            HashMap_insert(s.window_to_workspace, window,
                                           s.current_workspace)]
        cw1 == current_workspace_of(s1)
        r2 == set_focus(s1, window)
    IN IF cw1.fullscreen # None /\ is_window_mapped(cw1, cw1.fullscreen)
       THEN R(s1, << Map(window) >> \o configure_windows(s1, s1.current_workspace))
       ELSE R(r2.s, << Map(window) >> \o r2.effects
                    \o configure_windows(r2.s, r2.s.current_workspace))

on_map_request(s, window, window_type) ==
    CASE window_type = "Unmanaged" -> R(s, << Map(window) >>)
      [] window_type = "Dock" -> handle_map_request_dock(s, window)
      [] window_type = "Managed" -> handle_map_request_managed(s, window)

handle_destroy_event_dock(s, window) ==
    LET s1 == [s EXCEPT !.dock_windows =
                  SelectSeq(s.dock_windows, LAMBDA w : w # window)]
    IN R(s1, (IF s1.dock_windows # << >> THEN configure_dock_windows(s1) ELSE << >>)
             \o configure_windows(s1, s1.current_workspace))

handle_destroy_event_managed(s, window) ==
    LET workspace_id == window_workspace(s, window)
        s1 == IF workspace_id # NoWs
              THEN put_workspace(
                      [s EXCEPT !.window_to_workspace =
                          HashMap_remove(s.window_to_workspace, window)],
                      workspace_id,
                      remove_client(get_workspace(s, workspace_id), window))
              ELSE s
        r2 == refocus(s1)
    IN R(r2.s, configure_windows(s1, s1.current_workspace) \o r2.effects)

on_destroy(s, window) ==
    CASE tracked_window_type(s, window) = "Dock" -> handle_destroy_event_dock(s, window)
      [] tracked_window_type(s, window) = "Managed" -> handle_destroy_event_managed(s, window)
      [] OTHER -> R(s, << >>)

\* variant of handle_unmap_event_managed without the early return for a
\* window of a background workspace
handle_unmap_event_managed_relayouts(s, window) ==
    LET workspace_id == window_workspace(s, window)
        workspace == get_workspace(s, workspace_id)
        changed == workspace_id \in WsIds /\ is_window_mapped(workspace, window)
        s1 == IF changed
              THEN put_workspace(s, workspace_id,
                                 set_client_mapped(workspace, window, FALSE))
              ELSE s
    IN IF workspace_id = NoWs THEN R(s, << >>)
       ELSE IF ~changed THEN R(s1, << >>)
       ELSE R(s1, configure_windows(s1, s1.current_workspace))

\* variant that clears the flag and relayouts whether or not it was set
handle_unmap_event_managed_unconditional(s, window) ==
    LET workspace_id == window_workspace(s, window)
        workspace == get_workspace(s, workspace_id)
        changed == workspace_id \in WsIds /\ contains_key(workspace, window)
        s1 == IF changed
              THEN put_workspace(s, workspace_id,
                                 set_client_mapped(workspace, window, FALSE))
              ELSE s
    IN IF workspace_id = NoWs THEN R(s, << >>)
       ELSE IF workspace_id # s.current_workspace THEN R(s1, << >>)
       ELSE IF ~changed THEN R(s1, << >>)
       ELSE R(s1, configure_windows(s1, s1.current_workspace))

handle_unmap_event_managed(s, window) ==
    LET workspace_id == window_workspace(s, window)
        workspace == get_workspace(s, workspace_id)
        changed == workspace_id \in WsIds /\ is_window_mapped(workspace, window)
        s1 == IF changed
              THEN put_workspace(s, workspace_id,
                                 set_client_mapped(workspace, window, FALSE))
              ELSE s
    IN IF workspace_id = NoWs THEN R(s, << >>)
       ELSE IF workspace_id # s.current_workspace THEN R(s1, << >>)
       ELSE IF ~changed THEN R(s1, << >>)
       ELSE R(s1, configure_windows(s1, s1.current_workspace))

on_unmap(s, window) ==
    CASE tracked_window_type(s, window) = "Managed" -> handle_unmap_event_managed(s, window)
      [] OTHER -> R(s, << >>)

track_startup_dock(s, window) ==
    IF ~is_dock(s, window)
    THEN [s EXCEPT !.dock_windows = Append(s.dock_windows, window)]
    ELSE s

track_startup_managed(s, window, workspace_id) ==
    IF workspace_id \in WsIds
    THEN [put_workspace(s, workspace_id, push_window(get_workspace(s, workspace_id), window))
             EXCEPT !.window_to_workspace =
                 HashMap_insert(s.window_to_workspace, window, workspace_id)]
    ELSE s

\* variant of startup_finalize that seeds the current index without the modulo
startup_finalize_unwrapped(s, current_desktop) ==
    LET e1 == IF s.dock_windows # << >> THEN configure_dock_windows(s) ELSE << >>
        s1 == [s EXCEPT !.current_workspace = current_desktop + 1]
        r2 == go_to_workspace(s1, current_desktop)
    IN IF current_desktop # NoWs
       THEN R(r2.s, e1 \o r2.effects)
       ELSE R(s, e1)

startup_finalize(s, current_desktop) ==
    LET e1 == IF s.dock_windows # << >> THEN configure_dock_windows(s) ELSE << >>
        s1 == [s EXCEPT !.current_workspace = (current_desktop + 1) % NUM_WORKSPACES]
        r2 == go_to_workspace(s1, current_desktop)
    IN IF current_desktop # NoWs
       THEN R(r2.s, e1 \o r2.effects)
       ELSE R(s, e1)

\* =============================================================== the system
VARIABLES
    workspaces,           \* State.workspaces
    window_to_workspace,  \* State.window_to_workspace (the reverse index)
    current_workspace,    \* State.current_workspace
    window_gap,           \* State.window_gap
    dock_windows,         \* State.dock_windows
    current_layout,       \* State.layout_manager.current_layout
    phase,                \* "startup" until startup_finalize has run
    layout_call,          \* a call of Layout::generate_layout and its outcome
    x11                   \* the X server and the connection's two queues

vars == << workspaces, window_to_workspace, current_workspace, window_gap,
           dock_windows, current_layout, phase, layout_call, x11 >>

St == [workspaces |-> workspaces,
       window_to_workspace |-> window_to_workspace,
       current_workspace |-> current_workspace,
       window_gap |-> window_gap,
       dock_windows |-> dock_windows,
       current_layout |-> current_layout]

\* the state after a method that returned r; the Vec<Effect> r.effects is
\* handed to the executor and is not part of the State
Return(r) ==
    /\ workspaces' = r.s.workspaces
    /\ window_to_workspace' = r.s.window_to_workspace
    /\ current_workspace' = r.s.current_workspace
    /\ window_gap' = r.s.window_gap
    /\ dock_windows' = r.s.dock_windows
    /\ current_layout' = r.s.current_layout
    /\ UNCHANGED << layout_call, x11 >>

NoCall == [status |-> "none"]
NoServer == [status |-> "none"]

Init ==
    /\ workspaces = State_new.workspaces
    /\ window_to_workspace = State_new.window_to_workspace
    /\ current_workspace = State_new.current_workspace
    /\ window_gap = State_new.window_gap
    /\ dock_windows = State_new.dock_windows
    /\ current_layout = State_new.current_layout
    /\ phase = "startup"
    /\ layout_call = NoCall
    /\ x11 = NoServer

\* ------------------------------------------------- startup reassembly
\* every child of the root is classified once: a window is recorded either
\* as a dock or as a managed window of the workspace its _NET_WM_DESKTOP names
IsTracked(window) ==
    \/ window \in DOMAIN window_to_workspace
    \/ is_dock(St, window)

\* the dock list grows to at most MaxDocks windows
DockAdmitted(window) ==
    is_dock(St, window) \/ Len(dock_windows) < MaxDocks

TrackStartupDock(window) ==
    /\ phase = "startup"
    /\ ~IsTracked(window)
    /\ DockAdmitted(window)
    /\ Return(R(track_startup_dock(St, window), << >>))
    /\ UNCHANGED phase

TrackStartupManaged(window, workspace_id) ==
    /\ phase = "startup"
    /\ ~IsTracked(window)
    /\ Return(R(track_startup_managed(St, window, workspace_id), << >>))
    /\ UNCHANGED phase

StartupFinalize(current_desktop) ==
    /\ phase = "startup"
    /\ Return(startup_finalize(St, current_desktop))
    /\ phase' = "running"

\* ------------------------------------------------------ X events and keys
OnMapRequest(window, window_type) ==
    /\ phase = "running"
    /\ window_type = "Dock" => DockAdmitted(window)
    /\ Return(on_map_request(St, window, window_type))
    /\ UNCHANGED phase

OnDestroy(window) ==
    /\ phase = "running"
    /\ Return(on_destroy(St, window))
    /\ UNCHANGED phase

OnUnmap(window) ==
    /\ phase = "running"
    /\ Return(on_unmap(St, window))
    /\ UNCHANGED phase

SetFocus(window) ==
    /\ phase = "running"
    /\ Return(set_focus(St, window))
    /\ UNCHANGED phase

ToggleFullscreen ==
    /\ phase = "running"
    /\ Return(toggle_fullscreen(St))
    /\ UNCHANGED phase

FocusWindow(window, desktop_hint) ==
    /\ phase = "running"
    /\ Return(focus_window(St, window, desktop_hint))
    /\ UNCHANGED phase

GoToWorkspace(workspace_id) ==
    /\ phase = "running"
    /\ Return(go_to_workspace(St, workspace_id))
    /\ UNCHANGED phase

SendToWorkspace(workspace_id) ==
    /\ phase = "running"
    /\ Return(send_to_workspace(St, workspace_id))
    /\ UNCHANGED phase

\* The tiling knobs (client weights, gap, layout) are unbounded in the code;
\* the model lets at most MaxTiling units of adjustment be in force at once.
RECURSIVE ExtraWeight(_)
ExtraWeight(clients) ==
    IF clients = << >> THEN 0
    ELSE (Head(clients).size - 1) + ExtraWeight(Tail(clients))

RECURSIVE ExtraWeights(_, _)
ExtraWeights(s, i) ==
    IF i \notin WsIds THEN 0
    ELSE ExtraWeight(s.workspaces[i].clients) + ExtraWeights(s, i + 1)

Tiling(s) ==
    ExtraWeights(s, 0) + s.window_gap
    + (IF s.current_layout = LayoutTypes[1] THEN 0 ELSE 1)

IncreaseWindowWeight(increment) ==
    /\ phase = "running"
    /\ Tiling(St) + increment <= MaxTiling
    /\ Return(increase_window_weight(St, increment))
    /\ UNCHANGED phase

DecreaseWindowWeight(decrement) ==
    /\ phase = "running"
    /\ Return(decrease_window_weight(St, decrement))
    /\ UNCHANGED phase

IncreaseWindowGap(increment) ==
    /\ phase = "running"
    /\ Tiling(St) + increment <= MaxTiling
    /\ Return(increase_window_gap(St, increment))
    /\ UNCHANGED phase

DecreaseWindowGap(decrement) ==
    /\ phase = "running"
    /\ Return(decrease_window_gap(St, decrement))
    /\ UNCHANGED phase

ShiftFocus(direction) ==
    /\ phase = "running"
    /\ Return(shift_focus(St, direction))
    /\ UNCHANGED phase

SwapWindow(direction) ==
    /\ phase = "running"
    /\ Return(swap_window(St, direction))
    /\ UNCHANGED phase

CycleLayout ==
    /\ phase = "running"
    /\ Tiling(cycle_layout(St).s) <= MaxTiling
    /\ Return(cycle_layout(St))
    /\ UNCHANGED phase

Next ==
    \/ \E w \in Windows : TrackStartupDock(w)
    \/ \E w \in Windows, i \in WsArgs : TrackStartupManaged(w, i)
    \/ \E h \in WsArgs \cup {NoWs} : StartupFinalize(h)
    \/ \E w \in Windows, t \in WindowTypes : OnMapRequest(w, t)
    \/ \E w \in Windows : OnDestroy(w)
    \/ \E w \in Windows : OnUnmap(w)
    \/ \E w \in Windows : SetFocus(w)
    \/ ToggleFullscreen
    \/ \E w \in Windows, h \in WsArgs \cup {NoWs} : FocusWindow(w, h)
    \/ \E i \in WsArgs : GoToWorkspace(i)
    \/ \E i \in WsArgs : SendToWorkspace(i)
    \/ \E n \in Steps : IncreaseWindowWeight(n)
    \/ \E n \in Steps : DecreaseWindowWeight(n)
    \/ \E n \in Steps : IncreaseWindowGap(n)
    \/ \E n \in Steps : DecreaseWindowGap(n)
    \/ \E d \in {-1, 1} : ShiftFocus(d)
    \/ \E d \in {-1, 1} : SwapWindow(d)
    \/ CycleLayout

Spec == Init /\ [][Next]_vars

\* --------------------------------------------- focus order among three
\* The same operations on one more window, without docks and tiling knobs, so
\* that insertion order among three clients of one workspace is exercised.
\* Workspace 0 stays current; clients reach workspace 1 by startup tracking
\* and by send_to_workspace.
MaxFocusWindows == 3
FocusWindows == 1..MaxFocusWindows

NextFocus ==
    \/ \E w \in FocusWindows, i \in 0..1 : TrackStartupManaged(w, i)
    \/ \E h \in {0, NoWs} : StartupFinalize(h)
    \/ \E w \in FocusWindows : OnMapRequest(w, "Managed")
    \/ \E w \in FocusWindows : OnDestroy(w)
    \/ \E w \in FocusWindows : OnUnmap(w)
    \/ \E w \in FocusWindows : SetFocus(w)
    \/ ToggleFullscreen
    \/ \E i \in 0..1 : SendToWorkspace(i)
    \/ \E d \in {-1, 1} : ShiftFocus(d)
    \/ \E d \in {-1, 1} : SwapWindow(d)

SpecFocus == Init /\ [][NextFocus]_vars

\* ------------------------------------------------- the layout strategies
\* generate_layout as a function of its arguments: the call starts from any
\* layout, area, weight list, border width and gap within the bounds, and one
\* step runs it under either build.  Areas are at least as wide and high as
\* the largest gap.
MaxLen == 3
MaxWeight == 2
MaxBorder == 1
MaxGap == 2
AreaSides == {4, 6, 8, 100, 101}

RECURSIVE WeightLists(_)
WeightLists(n) ==
    IF n = 0 THEN {<< >>}
    ELSE LET shorter == WeightLists(n - 1)
         IN shorter \cup {Append(ws, weight) :
                             ws \in {l \in shorter : Len(l) = n - 1},
                             weight \in 1..MaxWeight}

InitLayout ==
    /\ workspaces = State_new.workspaces
    /\ window_to_workspace = State_new.window_to_workspace
    /\ current_workspace = State_new.current_workspace
    /\ window_gap = State_new.window_gap
    /\ dock_windows = State_new.dock_windows
    /\ current_layout = State_new.current_layout
    /\ phase = "startup"
    /\ x11 = NoServer
    /\ \E layout \in {LayoutTypes[1], LayoutTypes[2]},
          w \in AreaSides, h \in AreaSides,
          weights \in WeightLists(MaxLen),
          border_width \in 0..MaxBorder, gap \in 0..MaxGap :
          layout_call = [status |-> "pending", layout |-> layout,
                         area |-> Rect(0, 0, w, h), weights |-> weights,
                         border_width |-> border_width, window_gap |-> gap,
                         rects |-> << >>]

GenerateLayout(build) ==
    /\ layout_call.status = "pending"
    /\ LET c == layout_call
       IN layout_call' =
            IF generate_layout_panics(c.layout, c.area, c.weights,
                                      c.border_width, c.window_gap, build)
            THEN [c EXCEPT !.status = "panicked"]
            ELSE [c EXCEPT !.status = "returned",
                           !.rects = generate_layout(c.layout, c.area, c.weights,
                                                     c.border_width, c.window_gap)]
    /\ UNCHANGED << workspaces, window_to_workspace, current_workspace,
                    window_gap, dock_windows, current_layout, phase, x11 >>

NextLayout == \E build \in Builds : GenerateLayout(build)

SpecLayout == InitLayout /\ [][NextLayout]_vars

\* ------------------------------------------------- the X11 event loop
\* WindowManager::run: after startup the loop waits for an event.  An event
\* is handled by its handler in one step; an error from wait_for_event is
\* taken in two steps, the result and the match arm that decides on it.
\* phase is the position in run: "startup", "running" (at wait_for_event),
\* "protocol_error" / "connection_error" (wait_for_event returned that error),
\* "returned".
Ok(value) == [ok |-> TRUE, value |-> value]
Err == [ok |-> FALSE, value |-> FALSE]

\* the WM_PROTOCOLS property values a client may carry
WmProtocols ==
    { << >>, << "WM_TAKE_FOCUS" >>, << "WM_DELETE_WINDOW" >>,
      << "WM_TAKE_FOCUS", "WM_DELETE_WINDOW" >> }

\* X11::supports_wm_delete: the GetProperty reply fails, or lists the atoms
supports_wm_delete(wm_protocols, reply_fails) ==
    IF reply_fails THEN Err
    ELSE Ok(\E k \in DOMAIN wm_protocols : wm_protocols[k] = "WM_DELETE_WINDOW")

\* variant that asks politely even when the query failed
close_window_graceful_on_error(s, window, wm_protocols, reply_fails) ==
    LET query == supports_wm_delete(wm_protocols, reply_fails)
    IN IF query.ok /\ ~query.value THEN R(s, << KillClient(window) >>)
       ELSE R(s, << SendWmDelete(window) >>)

close_window(s, window, wm_protocols, reply_fails) ==
    LET query == supports_wm_delete(wm_protocols, reply_fails)
    IN IF query.ok
       THEN IF query.value THEN R(s, << SendWmDelete(window) >>)
            ELSE R(s, << KillClient(window) >>)
       ELSE R(s, << KillClient(window) >>)

\* WindowManager::kill_client: the focused client is dropped from the
\* workspace and from the reverse index before the close is requested
kill_client(s, wm_protocols, reply_fails) ==
    LET cw == current_workspace_of(s)
        window == cw.focus
        query == supports_wm_delete(wm_protocols, reply_fails)
        s1 == [put_workspace(s, s.current_workspace, removed_focused_window(cw))
                  EXCEPT !.window_to_workspace =
                      HashMap_remove(s.window_to_workspace, window)]
    IN IF window # None /\ contains_key(cw, window)
       THEN IF query.ok /\ query.value
            THEN R(s1, << SendWmDelete(window) >>)
            ELSE R(s1, << KillClient(window) >>)
       ELSE R(s, << >>)

\* variant whose match returns on every error
run_on_error_returns(error) == "returned"

\* the Err arms of the match on wait_for_event's result
run_on_error(error) ==
    IF error = "protocol_error" THEN "running" ELSE "returned"

CloseWindow(window, wm_protocols, reply_fails) ==
    /\ phase = "running"
    /\ Return(close_window(St, window, wm_protocols, reply_fails))
    /\ UNCHANGED phase

KillKey(wm_protocols, reply_fails) ==
    /\ phase = "running"
    /\ Return(kill_client(St, wm_protocols, reply_fails))
    /\ UNCHANGED phase

WaitForEventError(error) ==
    /\ phase = "running"
    /\ phase' = error
    /\ UNCHANGED << workspaces, window_to_workspace, current_workspace,
                    window_gap, dock_windows, current_layout, layout_call, x11 >>

RunOnError ==
    /\ phase \in {"protocol_error", "connection_error"}
    /\ phase' = run_on_error(phase)
    /\ UNCHANGED << workspaces, window_to_workspace, current_workspace,
                    window_gap, dock_windows, current_layout, layout_call, x11 >>

NextRun ==
    \/ \E w \in Windows, i \in 0..1 : TrackStartupManaged(w, i)
    \/ \E h \in {0, NoWs} : StartupFinalize(h)
    \/ \E w \in Windows : OnMapRequest(w, "Managed")
    \/ \E w \in Windows : OnDestroy(w)
    \/ \E w \in Windows : OnUnmap(w)
    \/ \E w \in Windows, p \in WmProtocols, f \in BOOLEAN : CloseWindow(w, p, f)
    \/ \E p \in WmProtocols, f \in BOOLEAN : KillKey(p, f)
    \/ \E e \in {"protocol_error", "connection_error"} : WaitForEventError(e)
    \/ RunOnError

SpecRun == Init /\ [][NextRun]_vars

\* ------------------------------------------------- manager and X server
\* The X server is a process of its own.  The manager sends the Map and
\* Unmap effects of a handler as requests (X11::apply_effects_unchecked); the
\* server executes them in order and enqueues one UnmapNotify per executed
\* Unmap.  Key presses are enqueued at any time.  The manager takes the events
\* in order (WindowManager::run).  x11 holds the request queue, the event
\* queue, the windows the server shows and the key presses so far.
MaxKeys == 3

KeyActions ==
    {[type |-> "Key", action |-> a, arg |-> i] :
        a \in {"GoToWorkspace", "SendToWorkspace"}, i \in 0..(MaxWs - 1)}

UnmapNotify(window) == [type |-> "UnmapNotify", window |-> window]

\* the manager after startup: windows 1..MaxWindows, viewable children of
\* the root, tracked on workspace 0 and no current-desktop hint
RECURSIVE track_all(_, _)
track_all(s, n) ==
    IF n = 0 THEN s ELSE track_startup_managed(track_all(s, n - 1), n, 0)

InitServer ==
    LET s == startup_finalize(track_all(State_new, MaxWindows), NoWs).s
    IN /\ workspaces = s.workspaces
       /\ window_to_workspace = s.window_to_workspace
       /\ current_workspace = s.current_workspace
       /\ window_gap = s.window_gap
       /\ dock_windows = s.dock_windows
       /\ current_layout = s.current_layout
       /\ phase = "running"
       /\ layout_call = NoCall
       /\ x11 = [requests |-> << >>, events |-> << >>,
                 mapped |-> Windows, keys |-> 0]

KeyPress(key) ==
    /\ x11.keys < MaxKeys
    /\ x11' = [x11 EXCEPT !.events = Append(@, key), !.keys = @ + 1]
    /\ UNCHANGED << workspaces, window_to_workspace, current_workspace,
                    window_gap, dock_windows, current_layout, phase, layout_call >>

\* the handler run picks for an event
handle_event(s, event) ==
    IF event.type = "UnmapNotify" THEN on_unmap(s, event.window)
    ELSE IF event.action = "GoToWorkspace" THEN go_to_workspace(s, event.arg)
    ELSE send_to_workspace(s, event.arg)

\* one turn of the loop: the next event, its handler, its effects sent
HandleEvent ==
    /\ x11.events # << >>
    /\ LET r == handle_event(St, Head(x11.events))
       IN /\ workspaces' = r.s.workspaces
          /\ window_to_workspace' = r.s.window_to_workspace
          /\ current_workspace' = r.s.current_workspace
          /\ window_gap' = r.s.window_gap
          /\ dock_windows' = r.s.dock_windows
          /\ current_layout' = r.s.current_layout
          /\ x11' = [x11 EXCEPT
                        !.events = Tail(@),
                        !.requests = @ \o SelectSeq(r.effects,
                                            LAMBDA e : e.tag \in {"Map", "Unmap"})]
    /\ UNCHANGED << phase, layout_call >>

\* the server executes the next request
ServerExecute ==
    /\ x11.requests # << >>
    /\ LET request == Head(x11.requests)
       IN x11' = IF request.tag = "Map"
                 THEN [x11 EXCEPT !.requests = Tail(@),
                                  !.mapped = @ \cup {request.window}]
                 ELSE [x11 EXCEPT !.requests = Tail(@),
                                  !.mapped = @ \ {request.window},
                                  !.events = Append(@, UnmapNotify(request.window))]
    /\ UNCHANGED << workspaces, window_to_workspace, current_workspace,
                    window_gap, dock_windows, current_layout, phase, layout_call >>

NextServer ==
    \/ \E key \in KeyActions : KeyPress(key)
    \/ HandleEvent
    \/ ServerExecute

SpecServer == InitServer /\ [][NextServer]_vars

\* ================================================================= claims
Clients(i) == {workspaces[i].clients[k].window : k \in DOMAIN workspaces[i].clients}
HomesOf(window) == {i \in WsIds : window \in Clients(i)}
Managed == DOMAIN window_to_workspace
Docks == {dock_windows[k] : k \in DOMAIN dock_windows}
MappedClients(i) ==
    {workspaces[i].clients[k].window :
        k \in {j \in DOMAIN workspaces[i].clients : workspaces[i].clients[j].is_mapped}}

\* C1: a window is a key of the reverse index iff it is a client of exactly
\* one workspace; no window is ever a client of two workspaces at once.
C1_ReverseIndexBijective ==
    \A w \in Windows : (w \in Managed) <=> (Cardinality(HomesOf(w)) = 1)

\* C2: in every workspace a fullscreen mark Some(c) names a client of that
\* workspace, and the workspace's focus is Some(c).
C2_FullscreenIsFocusedClient ==
    \A i \in WsIds :
        workspaces[i].fullscreen # None =>
            /\ workspaces[i].fullscreen \in Clients(i)
            /\ workspaces[i].focus = workspaces[i].fullscreen

C2_Witness ==
    \E i \in WsIds :
        /\ workspaces[i].fullscreen # None
        /\ Cardinality(Clients(i)) >= 2

\* C3: in every workspace a focus Some(c) names a client of that workspace,
\* and an empty client list has focus None.
C3_FocusIsClient ==
    \A i \in WsIds :
        /\ workspaces[i].focus # None => workspaces[i].focus \in Clients(i)
        /\ workspaces[i].clients = << >> => workspaces[i].focus = None

C3_Witness ==
    /\ phase = "running"
    /\ \E i \in WsIds :
           /\ Len(workspaces[i].clients) = 2
           /\ workspaces[i].focus = workspaces[i].clients[2].window

\* C4: every workspace with a non-empty client list has a focus, and when no
\* client is mapped the focus is the last client.
C4_PopulatedHasFocus ==
    \A i \in WsIds :
        workspaces[i].clients # << >> =>
            /\ workspaces[i].focus \in Clients(i)
            /\ MappedClients(i) = {} =>
                  workspaces[i].focus =
                      workspaces[i].clients[Len(workspaces[i].clients)].window

\* C5: in every workspace that has a client flagged mapped, the focus names
\* a client that is flagged mapped.
C5_FocusIsMapped ==
    \A i \in WsIds :
        MappedClients(i) # {} => workspaces[i].focus \in MappedClients(i)

\* C6: no dock window is a client of a workspace or a key of the reverse
\* index, and the dock list holds no window twice.
C6_DocksApart ==
    /\ \A w \in Docks : w \notin Managed /\ HomesOf(w) = {}
    /\ \A j, k \in DOMAIN dock_windows : dock_windows[j] = dock_windows[k] => j = k

\* C7: every key x of the reverse index maps to an index below N, and x is a
\* client of that workspace.
C7_ReverseIndexSound ==
    \A x \in Managed :
        /\ window_to_workspace[x] < NUM_WORKSPACES
        /\ x \in Clients(window_to_workspace[x])

C7_Witness ==
    /\ phase = "running"
    /\ \E x, y \in Managed : window_to_workspace[x] # window_to_workspace[y]

\* C8: the active-workspace index is in [0, N).
C8_CurrentInRange == current_workspace \in WsIds

C8_Witness == phase = "running" /\ current_workspace # 0

\* the precondition of C9: the current workspace has a focus and no mark
ToggleOnReady ==
    /\ phase = "running"
    /\ current_workspace_of(St).focus # None
    /\ current_workspace_of(St).fullscreen = None

Contains(effects, e) == \E k \in DOMAIN effects : effects[k] = e

\* C10: toggle_fullscreen() that turns fullscreen on for the focused, mapped
\* window w returns effects that contain Configure{w, 0, 0, screen.width,
\* screen.height, border 0}, Raise(w) and Focus(w).
C10_ToggleOnEffects ==
    LET cw == current_workspace_of(St)
        r == toggle_fullscreen(St)
    IN (ToggleOnReady /\ is_window_mapped(cw, cw.focus)) =>
           /\ Contains(r.effects,
                       Configure(cw.focus, 0, 0, ScreenWidth, ScreenHeight, 0))
           /\ Contains(r.effects, Raise(cw.focus))
           /\ Contains(r.effects, Focus(cw.focus))

\* the current workspace has a fullscreen mark on a window flagged mapped
FullscreenPinned ==
    /\ current_workspace_of(St).fullscreen # None
    /\ is_window_mapped(current_workspace_of(St), current_workspace_of(St).fullscreen)

\* C11: while the current workspace has a fullscreen mark on a mapped window,
\* set_focus(w) and focus_window(w, hint) return [] and leave the whole state
\* unchanged, for every w and every hint.
C11_FocusPinned ==
    FullscreenPinned =>
        \A w \in Windows :
            /\ set_focus(St, w) = R(St, << >>)
            /\ \A hint \in WsArgs \cup {NoWs} :
                   focus_window(St, w, hint) = R(St, << >>)

C11_Witness ==
    /\ FullscreenPinned
    /\ \E w \in Managed :
          /\ w # current_workspace_of(St).fullscreen
          /\ window_to_workspace[w] # current_workspace

\* C12: while the current workspace has a mapped fullscreen window f,
\* on_map_request(w', Managed) for any w' other than f keeps fullscreen = f and
\* focus = f, leaves w' a client of the current workspace flagged mapped,
\* emits Map(w') and emits no Focus(w').
C12_MapRequestUnderFullscreen ==
    FullscreenPinned =>
        \A w \in Windows \ {current_workspace_of(St).fullscreen} :
            LET f == current_workspace_of(St).fullscreen
                r == on_map_request(St, w, "Managed")
                cw2 == current_workspace_of(r.s)
            IN /\ cw2.fullscreen = f
               /\ cw2.focus = f
               /\ r.s.current_workspace = current_workspace
               /\ contains_key(cw2, w)
               /\ is_window_mapped(cw2, w)
               /\ Contains(r.effects, Map(w))
               /\ ~Contains(r.effects, Focus(w))

C12_Witness ==
    /\ FullscreenPinned
    /\ \E w \in Windows :
          /\ w \notin Managed
          /\ w \notin Docks
          /\ contains_key(current_workspace_of(on_map_request(St, w, "Managed").s), w)

\* the windows of a workspace that are flagged mapped
MappedOf(ws) ==
    {ws.clients[k].window : k \in {j \in DOMAIN ws.clients : ws.clients[j].is_mapped}}

Configures(effects) == SelectSeq(effects, LAMBDA e : e.tag = "Configure")

\* effects hold exactly one Configure for each mapped client of ws, no other
OneConfigureEach(effects, ws) ==
    /\ Len(Configures(effects)) = Cardinality(MappedOf(ws))
    /\ \A c \in MappedOf(ws) :
           \E k \in DOMAIN Configures(effects) : Configures(effects)[k].window = c

\* the focused window is a client of the current workspace and another
\* client of it is flagged mapped
FocusedAmongMapped ==
    LET cw == current_workspace_of(St)
    IN /\ phase = "running"
       /\ cw.focus # None
       /\ contains_key(cw, cw.focus)
       /\ MappedOf(cw) \ {cw.focus} # {}

\* C13: on_destroy(w) of the focused client w of the current workspace while
\* other mapped clients remain: fullscreen is None if it was w, the focus is
\* the client that followed w in insertion order (the one before w when w was
\* last) if that client is mapped, the effects contain Focus(new focus) and
\* exactly one Configure per remaining mapped client.
C13_DestroyFocused ==
    LET cw == current_workspace_of(St)
        w == cw.focus
        idx == index_of_window(cw, w)
        succ == IF idx < Len(cw.clients) THEN cw.clients[idx + 1]
                ELSE cw.clients[idx - 1]
        r == on_destroy(St, w)
        cw2 == current_workspace_of(r.s)
    IN FocusedAmongMapped =>
          /\ cw.fullscreen = w => cw2.fullscreen = None
          /\ succ.is_mapped => cw2.focus = succ.window
          /\ cw2.focus # None
          /\ Contains(r.effects, Focus(cw2.focus))
          /\ OneConfigureEach(r.effects, cw2)

\* window is tracked as a managed window of the current workspace only
TrackedHere(window) ==
    /\ window \in Managed
    /\ window_to_workspace[window] = current_workspace
    /\ window \notin Docks

\* C13 restricted to a focused window that is tracked as a managed window of
\* the current workspace only: the same postcondition.
C13_DestroyFocusedTrackedHere ==
    LET cw == current_workspace_of(St)
        w == cw.focus
        idx == index_of_window(cw, w)
        succ == IF idx < Len(cw.clients) THEN cw.clients[idx + 1]
                ELSE cw.clients[idx - 1]
        r == on_destroy(St, w)
        cw2 == current_workspace_of(r.s)
    IN (FocusedAmongMapped /\ TrackedHere(w)) =>
          /\ cw.fullscreen = w => cw2.fullscreen = None
          /\ succ.is_mapped => cw2.focus = succ.window
          /\ cw2.focus # None
          /\ Contains(r.effects, Focus(cw2.focus))
          /\ OneConfigureEach(r.effects, cw2)

\* C14: toggle_fullscreen() applied twice in a row leaves the fullscreen mark
\* and the focus of the current workspace as they were before the first call.
C14_ToggleTwice ==
    LET cw == current_workspace_of(St)
        cw2 == current_workspace_of(toggle_fullscreen(toggle_fullscreen(St).s).s)
    IN /\ cw2.fullscreen = cw.fullscreen
       /\ cw2.focus = cw.focus

C14_Witness ==
    /\ phase = "running"
    /\ current_workspace_of(St).fullscreen # None
    /\ current_workspace_of(toggle_fullscreen(St).s).fullscreen = None
    /\ Len(current_workspace_of(St).clients) >= 2

\* how often the effect e occurs in effects
Count(effects, e) == Cardinality({k \in DOMAIN effects : effects[k] = e})

Tagged(effects, tag) == SelectSeq(effects, LAMBDA e : e.tag = tag)

WindowsOf(ws) == {ws.clients[k].window : k \in DOMAIN ws.clients}

\* C15: go_to_workspace(i) with i < N and i other than the current index emits
\* exactly one Unmap(c) per client c of the outgoing workspace and exactly one
\* Map(c) per client c of the incoming workspace; afterwards current = i, every
\* outgoing client is flagged unmapped, every incoming client is flagged
\* mapped, and the outgoing workspace has no fullscreen mark.
C15_GoToWorkspace ==
    \A i \in WsIds \ {current_workspace} :
        LET r == go_to_workspace(St, i)
            out == workspaces[current_workspace]
            inc == workspaces[i]
            out2 == r.s.workspaces[current_workspace]
            inc2 == r.s.workspaces[i]
        IN /\ \A c \in WindowsOf(out) : Count(r.effects, Unmap(c)) = 1
           /\ Len(Tagged(r.effects, "Unmap")) = Len(out.clients)
           /\ \A c \in WindowsOf(inc) : Count(r.effects, Map(c)) = 1
           /\ Len(Tagged(r.effects, "Map")) = Len(inc.clients)
           /\ r.s.current_workspace = i
           /\ MappedOf(out2) = {}
           /\ WindowsOf(out2) = WindowsOf(out)
           /\ MappedOf(inc2) = WindowsOf(inc)
           /\ WindowsOf(inc2) = WindowsOf(inc)
           /\ out2.fullscreen = None

C15_Witness ==
    /\ phase = "running"
    /\ workspaces[current_workspace].fullscreen # None
    /\ \E i \in WsIds \ {current_workspace} :
          /\ workspaces[i].clients # << >>
          /\ go_to_workspace(St, i).s.current_workspace = i

\* every Unmap precedes every Map, and every Map precedes every Configure,
\* Focus, SetBorder and Raise
UnmapMapThenRest(effects) ==
    \A j, k \in DOMAIN effects :
        /\ (effects[j].tag = "Unmap" /\ effects[k].tag = "Map") => j < k
        /\ (effects[j].tag = "Map"
            /\ effects[k].tag \in {"Configure", "Focus", "SetBorder", "Raise"}) => j < k

\* C16: in the effects returned by go_to_workspace(i), and by focus_window and
\* startup_finalize when they switch workspace, every Unmap of an outgoing
\* client precedes every Map of an incoming client, and every Map precedes
\* the Configure and Focus effects of the incoming workspace.
C16_UnmapBeforeMap ==
    /\ \A i \in WsIds \cup {NUM_WORKSPACES} :
           UnmapMapThenRest(go_to_workspace(St, i).effects)
    /\ \A w \in Windows, h \in WsIds \cup {NUM_WORKSPACES, NoWs} :
           UnmapMapThenRest(focus_window(St, w, h).effects)
    /\ \A h \in WsIds \cup {NUM_WORKSPACES, NoWs} :
           UnmapMapThenRest(startup_finalize(St, h).effects)

C16_Witness ==
    \E i \in WsIds, w \in Windows :
        LET effects == focus_window(St, w, i).effects
        IN /\ Tagged(effects, "Unmap") # << >>
           /\ Tagged(effects, "Map") # << >>
           /\ Tagged(effects, "Configure") # << >>
           /\ Tagged(effects, "Focus") # << >>

\* C17: go_to_workspace(i) and send_to_workspace(i) with i the current index
\* or i >= N return [] and leave the whole state unchanged.
C17_SameOrInvalidIndex ==
    \A i \in {current_workspace, NUM_WORKSPACES, NUM_WORKSPACES + 1} :
        /\ go_to_workspace(St, i) = R(St, << >>)
        /\ send_to_workspace(St, i) = R(St, << >>)

C17_Witness ==
    /\ phase = "running"
    /\ current_workspace # 0
    /\ Len(workspaces[current_workspace].clients) = 2
    /\ workspaces[current_workspace].focus # None
    /\ send_to_workspace(St, current_workspace) = R(St, << >>)

\* C18: send_to_workspace(i) with i < N, i other than current, and focused
\* window w: afterwards w is no client of the current workspace, w is a client
\* of workspace i flagged unmapped, reverse_index[w] = i, the current
\* workspace's fullscreen mark is None if it was w, and the effects contain
\* Unmap(w), SetBorder{w, normal pixel, border width}, one Configure per
\* remaining mapped client of the current workspace, and Focus(f) for the new
\* focus f of the current workspace when there is one.
C18_SendToWorkspace ==
    LET cw == current_workspace_of(St)
        w == cw.focus
    IN w # None =>
        \A i \in WsIds \ {current_workspace} :
            LET r == send_to_workspace(St, i)
                cw2 == current_workspace_of(r.s)
                target == r.s.workspaces[i]
            IN /\ r.s.current_workspace = current_workspace
               /\ ~contains_key(cw2, w)
               /\ contains_key(target, w)
               /\ ~is_window_mapped(target, w)
               /\ window_workspace(r.s, w) = i
               /\ cw.fullscreen = w => cw2.fullscreen = None
               /\ Contains(r.effects, Unmap(w))
               /\ Contains(r.effects,
                           SetBorder(w, NormalBorderPixel, DEFAULT_BORDER_WIDTH))
               /\ OneConfigureEach(r.effects, cw2)
               /\ cw2.focus # None => Contains(r.effects, Focus(cw2.focus))

C18_Witness ==
    LET cw == current_workspace_of(St)
    IN /\ phase = "running"
       /\ cw.fullscreen # None
       /\ cw.fullscreen = cw.focus
       /\ Len(cw.clients) = 2
       /\ \E i \in WsIds \ {current_workspace} :
              window_workspace(send_to_workspace(St, i).s, cw.focus) = i

\* C19: State::set_focus(w) with no fullscreen mark on the current workspace:
\* if w is a mapped client of it the result is exactly SetBorder{previous
\* focus, normal pixel, border width} (omitted without a previous focus),
\* SetBorder{w, focused pixel, border width}, Focus(w), in this order, and
\* afterwards focus = w; otherwise the result is [] and the state is unchanged.
C19_SetFocus ==
    LET cw == current_workspace_of(St)
    IN cw.fullscreen = None =>
        \A w \in Windows :
            LET r == set_focus(St, w)
            IN IF contains_key(cw, w) /\ is_window_mapped(cw, w)
               THEN /\ r.effects =
                         (IF cw.focus # None
                          THEN << SetBorder(cw.focus, NormalBorderPixel,
                                            DEFAULT_BORDER_WIDTH) >>
                          ELSE << >>)
                         \o << SetBorder(w, FocusedBorderPixel, DEFAULT_BORDER_WIDTH),
                               Focus(w) >>
                    /\ current_workspace_of(r.s).focus = w
                    /\ r.s = put_workspace(St, current_workspace, [cw EXCEPT !.focus = w])
               ELSE r = R(St, << >>)

C19_Witness ==
    LET cw == current_workspace_of(St)
    IN /\ phase = "running"
       /\ cw.fullscreen = None
       /\ cw.focus # None
       /\ \E w \in Windows \ {cw.focus} :
              /\ is_window_mapped(cw, w)
              /\ current_workspace_of(set_focus(St, w).s).focus = w

\* C20 as stated: on_unmap(w) for a managed w of the current workspace that is
\* flagged mapped clears the flag and returns exactly one Configure per client
\* still mapped, none for w; for a managed w of a background workspace it
\* clears the flag and returns []; for a dock or an untracked window it
\* returns [] and leaves the state unchanged.
C20_UnmapOneConfigureEach ==
    \A w \in FocusWindows :
        LET r == on_unmap(St, w)
            kind == tracked_window_type(St, w)
            home == window_workspace(St, w)
            cw2 == current_workspace_of(r.s)
        IN /\ (kind = "Managed" /\ home = current_workspace
               /\ is_window_mapped(current_workspace_of(St), w)) =>
                  /\ ~is_window_mapped(cw2, w)
                  /\ OneConfigureEach(r.effects, cw2)
           /\ (kind = "Managed" /\ home # current_workspace) =>
                  /\ ~is_window_mapped(get_workspace(r.s, home), w)
                  /\ r.effects = << >>
           /\ kind \in {"Dock", "Unmanaged"} => r = R(St, << >>)

\* C20 amended: as stated, except that while a mapped fullscreen window f
\* other than w remains on the current workspace the effects are exactly
\* Configure{f, 0, 0, screen width, screen height, border 0}, Raise(f), with
\* no Configure for the other mapped clients.
C20_UnmapRelayout ==
    \A w \in FocusWindows :
        LET r == on_unmap(St, w)
            kind == tracked_window_type(St, w)
            home == window_workspace(St, w)
            cw2 == current_workspace_of(r.s)
        IN /\ (kind = "Managed" /\ home = current_workspace
               /\ is_window_mapped(current_workspace_of(St), w)) =>
                  /\ ~is_window_mapped(cw2, w)
                  /\ IF cw2.fullscreen # None
                     THEN r.effects =
                            << Configure(cw2.fullscreen, 0, 0,
                                         ScreenWidth, ScreenHeight, 0),
                               Raise(cw2.fullscreen) >>
                     ELSE /\ OneConfigureEach(r.effects, cw2)
                          /\ Len(r.effects) = Len(Configures(r.effects))
           /\ (kind = "Managed" /\ home # current_workspace) =>
                  /\ ~is_window_mapped(get_workspace(r.s, home), w)
                  /\ r.effects = << >>
           /\ kind \in {"Dock", "Unmanaged"} => r = R(St, << >>)

C20_Witness ==
    LET cw == current_workspace_of(St)
    IN /\ FullscreenPinned
       /\ \E w \in MappedOf(cw) \ {cw.fullscreen} :
             /\ MappedOf(cw) \ {cw.fullscreen, w} # {}
             /\ TrackedHere(w)
             /\ ~is_window_mapped(current_workspace_of(on_unmap(St, w).s), w)

\* C21 as stated: decrease_window_gap(k) with k >= gap leaves the window gap
\* unchanged and returns [], for every current gap value.
C21_GapUnchanged ==
    \A k \in 0..2 :
        ~ULess(k, window_gap) => decrease_window_gap(St, k) = R(St, << >>)

\* C21 amended: decrease_window_gap(k) with k >= gap leaves the gap at 0; with
\* gap = 0 the state is unchanged and the result is [], with gap > 0 only the
\* gap changes and the result is the relayout of the current workspace under
\* gap 0.
C21_GapSaturates ==
    \A k \in 0..2 :
        ~ULess(k, window_gap) =>
            LET r == decrease_window_gap(St, k)
                s0 == [St EXCEPT !.window_gap = 0]
            IN /\ r.s = s0
               /\ IF window_gap = 0 THEN r.effects = << >>
                  ELSE r.effects = configure_windows(s0, current_workspace)

C21_Witness ==
    /\ phase = "running"
    /\ window_gap > 0
    /\ decrease_window_gap(St, 2).s.window_gap = 0
    /\ decrease_window_gap(St, 2).effects # << >>

\* C22: every client's weight is >= 1; decrease_window_weight(n) and
\* increase_window_weight(n) set the focused client's weight to max(1, the
\* saturating difference or sum) and leave every other client as it was, and
\* do nothing without a focused client; increments up to u32::MAX saturate.
C22_WeightFloor ==
    /\ \A i \in WsIds : \A j \in DOMAIN workspaces[i].clients :
           ULess(0, workspaces[i].clients[j].size)
    /\ \A n \in Steps :
           LET inc == increase_window_weight(St, n)
               dec == decrease_window_weight(St, n)
           IN IF has_focused_client(St)
              THEN LET c == get_focused_client(St)
                   IN /\ inc.s = put_focused_client(St,
                                    [c EXCEPT !.size = c.size + n])
                      /\ dec.s = put_focused_client(St,
                                    [c EXCEPT !.size =
                                        IF c.size > n THEN c.size - n ELSE 1])
              ELSE inc = R(St, << >>) /\ dec = R(St, << >>)
    /\ has_focused_client(St) =>
           LET c == get_focused_client(St)
           IN /\ \A n \in {-1, -2} :
                     /\ increase_window_size(c, n).size = -1
                     /\ decrease_window_size(c, n).size = 1
              /\ increase_window_size(c, 2147483647).size
                     = (c.size - 1) + (-2147483647 - 1)
              /\ decrease_window_size(c, 2147483647).size = 1

C22_Witness ==
    /\ phase = "running"
    /\ has_focused_client(St)
    /\ get_focused_client(St).size = 2
    /\ Len(current_workspace_of(St).clients) = 2
    /\ get_focused_client(decrease_window_weight(St, 2).s).size = 1

\* a rectangle lies inside the area (its width and height read as u32)
Inside(rect, area) ==
    /\ rect.x >= area.x /\ rect.y >= area.y
    /\ rect.w >= 0 /\ rect.w <= area.w
    /\ rect.h >= 0 /\ rect.h <= area.h
    /\ rect.x + rect.w <= area.x + area.w
    /\ rect.y + rect.h <= area.y + area.h

LayoutCallDone == layout_call.status \in {"returned", "panicked"}

\* C23: for every non-empty weight list and every area with
\* area.w, area.h >= 2*(border+gap)+2, both generate_layout strategies return,
\* without underflow or division by zero, exactly len(weights) rectangles,
\* each with width >= 1 and height >= 1 and each inside the area.
C23_LayoutTotal ==
    LET c == layout_call
    IN (/\ LayoutCallDone
        /\ c.weights # << >>
        /\ c.area.w >= 2 * (c.border_width + c.window_gap) + 2
        /\ c.area.h >= 2 * (c.border_width + c.window_gap) + 2) =>
           /\ c.status = "returned"
           /\ Len(c.rects) = Len(c.weights)
           /\ \A i \in DOMAIN c.rects :
                  /\ c.rects[i].w # 0
                  /\ c.rects[i].h # 0
                  /\ Inside(c.rects[i], c.area)

HorizontalCallReturned ==
    /\ layout_call.status = "returned"
    /\ layout_call.layout = LayoutTypes[1]
    /\ layout_call.area.w >= 100
    /\ layout_call.area.h >= 100

\* C24: for weights >= 1, border and gap in [0,10] and an area of at least
\* 100x100, the rectangles of the horizontal-partition layout do not overlap
\* in x (x + width of one is at most x of the next), and all have y = gap and
\* the same height.
C24_HorizontalDisjoint ==
    LET c == layout_call
    IN HorizontalCallReturned =>
        /\ \A i \in DOMAIN c.rects :
              /\ c.rects[i].y = c.window_gap
              /\ c.rects[i].h = c.rects[1].h
        /\ \A i \in 1..(Len(c.rects) - 1) :
              c.rects[i].x + c.rects[i].w <= c.rects[i + 1].x

\* the y band alone: every rectangle has y = gap and the same height
C24_HorizontalBand ==
    LET c == layout_call
    IN HorizontalCallReturned =>
        \A i \in DOMAIN c.rects :
            /\ c.rects[i].y = c.window_gap
            /\ c.rects[i].h = c.rects[1].h

\* the client list is the managed windows by (workspace, id), then the docks
\* by id
ClientListSorted(out) ==
    LET n == Cardinality(Managed)
    IN /\ Len(out) = n + Len(dock_windows)
       /\ {out[k] : k \in 1..n} = Managed
       /\ \A j, k \in 1..n :
              j < k =>
                 \/ window_to_workspace[out[j]] < window_to_workspace[out[k]]
                 \/ /\ window_to_workspace[out[j]] = window_to_workspace[out[k]]
                    /\ out[j] < out[k]
       /\ \A w \in Docks :
              Count(SubSeq(out, n + 1, Len(out)), w) = Count(dock_windows, w)
       /\ \A j, k \in (n + 1)..Len(out) : j < k => out[j] <= out[k]

\* C25: in every reachable state client_list_windows() is the managed windows
\* of the reverse index ordered by (workspace index, window id) followed by
\* the dock windows ordered by window id, each tracked window exactly once.
C25_ClientList ==
    LET out == client_list_windows(St)
    IN /\ ClientListSorted(out)
       /\ \A w \in Managed \cup Docks : Count(out, w) = 1

\* the ordering alone, without the count of one per tracked window
C25_ClientListOrdered == ClientListSorted(client_list_windows(St))

\* C26: close_window(w) returns exactly [SendWmDelete(w)] when the
\* WM_PROTOCOLS query succeeds and lists WM_DELETE_WINDOW, exactly
\* [KillClient(w)] when it succeeds without it, and exactly [KillClient(w)]
\* when the query fails; the workspaces and the reverse index are unchanged.
C26_CloseWindow ==
    \A w \in Windows, p \in WmProtocols, f \in BOOLEAN :
        LET r == close_window(St, w, p, f)
            lists == \E k \in DOMAIN p : p[k] = "WM_DELETE_WINDOW"
        IN /\ r.s.workspaces = workspaces
           /\ r.s.window_to_workspace = window_to_workspace
           /\ (~f /\ lists) => r.effects = << SendWmDelete(w) >>
           /\ (~f /\ ~lists) => r.effects = << KillClient(w) >>
           /\ f => r.effects = << KillClient(w) >>

C26_Witness ==
    /\ phase = "running"
    /\ \E w \in Managed :
          /\ close_window(St, w, << "WM_DELETE_WINDOW" >>, FALSE).effects
                = << SendWmDelete(w) >>
          /\ close_window(St, w, << "WM_DELETE_WINDOW" >>, TRUE).effects
                = << KillClient(w) >>

\* C27: a protocol error returned by wait_for_event never ends the loop: the
\* next step is back at wait_for_event with the manager's state unchanged;
\* run returns only from a connection error, and takes no step afterwards.
C27_ProtocolErrorContinues ==
    [][/\ phase = "protocol_error" =>
            /\ phase' = "running"
            /\ UNCHANGED << workspaces, window_to_workspace, current_workspace,
                            window_gap, dock_windows, current_layout >>
       /\ phase' = "returned" => phase = "connection_error"
       /\ phase # "returned"]_vars

C27_Witness ==
    /\ phase = "protocol_error"
    /\ Managed # {}

\* C28: Workspace::push_window(w) for a window w that is already a client of
\* the workspace leaves the workspace unchanged: same insertion order and
\* length, the client's weight and mapped flag, the focus and the fullscreen
\* mark all as before.
C28_PushExisting ==
    \A i \in WsIds : \A w \in Clients(i) :
        push_window(workspaces[i], w) = workspaces[i]

\* what does hold for a repeated push: the windows keep their order, the
\* fullscreen mark stays, and every other client is untouched
C28_PushExistingKeepsOrder ==
    \A i \in WsIds : \A w \in Clients(i) :
        LET ws == workspaces[i]
            ws2 == push_window(ws, w)
        IN /\ Len(ws2.clients) = Len(ws.clients)
           /\ \A k \in DOMAIN ws.clients :
                  /\ ws2.clients[k].window = ws.clients[k].window
                  /\ ws.clients[k].window # w => ws2.clients[k] = ws.clients[k]
           /\ ws2.clients[index_of_window(ws, w)] = Client_new(w)
           /\ ws2.fullscreen = ws.fullscreen

\* C29: configure_windows(ws): with a fullscreen mark on a mapped client f the
\* result is exactly Configure{f, 0, 0, screen width, screen height, border 0},
\* Raise(f); otherwise it is exactly one Configure per client flagged mapped,
\* in insertion order, none for unmapped clients, each with border =
\* border_width, laid out over the area of height screen.height - dock_height
\* when the dock list is non-empty and screen.height when it is empty.
C29_ConfigureWindows ==
    \A i \in WsIds :
        LET ws == workspaces[i]
            effects == configure_windows(St, i)
            mapped == SelectSeq(ws.clients, LAMBDA c : c.is_mapped)
            height == IF dock_windows = << >> THEN ScreenHeight
                      ELSE ScreenHeight - DEFAULT_DOCK_HEIGHT
            rects == generate_layout(current_layout,
                                     Rect(0, 0, ScreenWidth, height),
                                     [k \in DOMAIN mapped |-> mapped[k].size],
                                     DEFAULT_BORDER_WIDTH, window_gap)
        IN IF ws.fullscreen # None /\ ws.fullscreen \in MappedOf(ws)
           THEN effects = << Configure(ws.fullscreen, 0, 0,
                                       ScreenWidth, ScreenHeight, 0),
                             Raise(ws.fullscreen) >>
           ELSE /\ Len(effects) = Len(mapped)
                /\ \A k \in DOMAIN mapped :
                       effects[k] = Configure(mapped[k].window,
                                              rects[k].x, rects[k].y,
                                              rects[k].w, rects[k].h,
                                              DEFAULT_BORDER_WIDTH)

C29_Witness ==
    LET cw == current_workspace_of(St)
        effects == configure_windows(St, current_workspace)
    IN /\ phase = "running"
       /\ dock_windows # << >>
       /\ cw.fullscreen = None
       /\ Len(cw.clients) = 2
       /\ Cardinality(MappedOf(cw)) = 1
       /\ Len(effects) = 1
       /\ effects[1].h = ScreenHeight - DEFAULT_DOCK_HEIGHT - 2 * DEFAULT_BORDER_WIDTH

\* position reached from index by k steps of direction, with wrap-around
StepsFrom(index, direction, k, length) ==
    ((index - 1 + direction * k) % length) + 1

\* C30: next_mapped_window(d) for d in {+1, -1} terminates and returns the
\* first client flagged mapped that is reached from the focus by stepping d
\* through the insertion order with wrap-around, never the focused window; it
\* returns None without a focus or when no other client is mapped.
C30_NextMappedWindow ==
    \A i \in WsIds, d \in {1, -1} :
        LET ws == workspaces[i]
            n == Len(ws.clients)
            index == index_of_window(ws, ws.focus)
            result == next_mapped_window(ws, d)
            hits == {k \in 1..(n - 1) :
                        ws.clients[StepsFrom(index, d, k, n)].is_mapped}
        IN IF ws.focus = None \/ index = 0 \/ hits = {}
           THEN result = None
           ELSE LET first == CHOOSE k \in hits : \A j \in hits : k <= j
                IN /\ result = ws.clients[StepsFrom(index, d, first, n)].window
                   /\ result # ws.focus

C30_Witness ==
    LET cw == current_workspace_of(St)
    IN /\ phase = "running"
       /\ Len(cw.clients) = 3
       /\ cw.focus = cw.clients[1].window
       /\ ~cw.clients[2].is_mapped
       /\ cw.clients[3].is_mapped
       /\ next_mapped_window(cw, 1) = cw.clients[3].window
       /\ next_mapped_window(cw, -1) = cw.clients[3].window

\* C31: State::swap_window(d) exchanges the positions of the focused client
\* and of next_mapped_window(d) in the insertion order and changes nothing
\* else (clients, weights, mapped flags, focus, fullscreen, reverse index,
\* positions of the other clients); it returns [] and changes nothing under a
\* fullscreen mark or when no other client is mapped.
C31_SwapWindow ==
    \A d \in {1, -1} :
        LET cw == current_workspace_of(St)
            r == swap_window(St, d)
            next_window == next_mapped_window(cw, d)
            a == index_of_window(cw, cw.focus)
            b == index_of_window(cw, next_window)
        IN IF cw.fullscreen # None \/ next_window = None
           THEN r = R(St, << >>)
           ELSE r.s = [St EXCEPT !.workspaces[current_workspace].clients =
                          [k \in DOMAIN cw.clients |->
                              IF k = a THEN cw.clients[b]
                              ELSE IF k = b THEN cw.clients[a]
                              ELSE cw.clients[k]]]

C31_Witness ==
    LET cw == current_workspace_of(St)
        cw2 == current_workspace_of(swap_window(St, 1).s)
    IN /\ phase = "running"
       /\ Len(cw.clients) = 3
       /\ cw.fullscreen = None
       /\ cw.focus = cw.clients[1].window
       /\ ~cw.clients[2].is_mapped
       /\ cw2.clients[1].window = cw.clients[3].window
       /\ cw2.clients[2] = cw.clients[2]
       /\ cw2.clients[3].window = cw.focus

\* the workspace invariants: empty => no focus; the focus is a client; the
\* fullscreen mark is a client and equals the focus
WorkspaceInv(ws) ==
    /\ ws.clients = << >> => ws.focus = None
    /\ ws.focus # None => contains_key(ws, ws.focus)
    /\ ws.fullscreen # None =>
          contains_key(ws, ws.fullscreen) /\ ws.fullscreen = ws.focus

\* the results of the public mutators of Workspace other than set_focus, for
\* every argument; with set_focus, the results of all of them
OtherMutatorResults(ws, windows) ==
    {push_window(ws, w) : w \in windows}
    \cup {remove_client(ws, w) : w \in windows}
    \cup {removed_focused_window(ws)}
    \cup {set_fullscreen(ws, w) : w \in windows}
    \cup {clear_fullscreen(ws)}
    \cup {set_client_mapped(ws, w, m) : w \in windows, m \in BOOLEAN}
    \cup {swap_windows(ws, a, b) : a \in windows, b \in windows}

MutatorResults(ws, windows) ==
    OtherMutatorResults(ws, windows)
    \cup {Workspace_set_focus(ws, w) : w \in windows}

\* C32: every public mutator of Workspace, called on its own with any
\* argument on a workspace that satisfies the workspace invariants, yields a
\* workspace that satisfies them again.
C32_MutatorsKeepInvariants ==
    \A i \in WsIds :
        WorkspaceInv(workspaces[i]) =>
            \A ws2 \in MutatorResults(workspaces[i], FocusWindows) :
                WorkspaceInv(ws2)

\* every mutator other than set_focus keeps the invariants
C32_OtherMutatorsKeepInvariants ==
    \A i \in WsIds :
        WorkspaceInv(workspaces[i]) =>
            \A ws2 \in OtherMutatorResults(workspaces[i], FocusWindows) :
                WorkspaceInv(ws2)

\* C33: handling the Kill key action only requests the close of the focused
\* window (one SendWmDelete or KillClient effect) and leaves the workspaces
\* and the reverse index unchanged, so the client stays managed until its
\* DestroyNotify is processed.
C33_KillOnlyRequests ==
    \A p \in WmProtocols, f \in BOOLEAN :
        LET cw == current_workspace_of(St)
            r == kill_client(St, p, f)
        IN (phase = "running" /\ cw.focus # None /\ contains_key(cw, cw.focus)) =>
              /\ r.effects \in {<< SendWmDelete(cw.focus) >>,
                                << KillClient(cw.focus) >>}
              /\ r.s.workspaces = workspaces
              /\ r.s.window_to_workspace = window_to_workspace

\* what the Kill key does: one close request for the focused window, which
\* is no longer a client of the current workspace afterwards
C33_KillRemovesFirst ==
    \A p \in WmProtocols, f \in BOOLEAN :
        LET cw == current_workspace_of(St)
            r == kill_client(St, p, f)
        IN (phase = "running" /\ cw.focus # None /\ contains_key(cw, cw.focus)) =>
              /\ r.effects \in {<< SendWmDelete(cw.focus) >>,
                                << KillClient(cw.focus) >>}
              /\ ~contains_key(current_workspace_of(r.s), cw.focus)
              /\ cw.focus \notin DOMAIN r.s.window_to_workspace

\* C34: after startup_finalize(Some(h)) the current workspace index is h when
\* h < N and the value it had before the call when h >= N; after
\* startup_finalize(None) it is unchanged; for h < N the effects contain
\* Map(c) for every client c of workspace h.
C34_FinalizeTransient ==
    phase = "startup" =>
        \A h \in WsArgs \cup {NoWs} :
            LET r == startup_finalize(St, h)
            IN /\ h = NoWs => r.s.current_workspace = current_workspace
               /\ h \in WsIds =>
                     /\ r.s.current_workspace = h
                     /\ \A c \in Clients(h) : Contains(r.effects, Map(c))
               /\ (h # NoWs /\ h \notin WsIds) =>
                     r.s.current_workspace = current_workspace

\* the in-range and the absent hint alone
C34_FinalizeInRange ==
    phase = "startup" =>
        \A h \in WsIds \cup {NoWs} :
            LET r == startup_finalize(St, h)
            IN /\ h = NoWs => r.s.current_workspace = current_workspace
               /\ h \in WsIds =>
                     /\ r.s.current_workspace = h
                     /\ \A c \in Clients(h) : Contains(r.effects, Map(c))

\* C35: whenever the event queue is empty (and the server has executed every
\* request sent so far), for every client of the current workspace the
\* manager's mapped flag equals the server's mapped state of that window.
C35_FlagMatchesServer ==
    (x11 # NoServer /\ x11.events = << >> /\ x11.requests = << >>) =>
        \A k \in DOMAIN current_workspace_of(St).clients :
            LET c == current_workspace_of(St).clients[k]
            IN c.is_mapped <=> c.window \in x11.mapped

\* C36: on_unmap(w) for a managed window that is already flagged unmapped
\* returns [] and leaves the whole state unchanged; so a second on_unmap(w)
\* after a first one changes nothing.
C36_UnmapIdempotent ==
    \A w \in Windows :
        LET home == window_workspace(St, w)
            once == on_unmap(St, w)
        IN /\ (tracked_window_type(St, w) = "Managed"
               /\ ~is_window_mapped(get_workspace(St, home), w)) =>
                  once = R(St, << >>)
           /\ on_unmap(once.s, w) = R(once.s, << >>)

C36_Witness ==
    LET cw == current_workspace_of(St)
    IN /\ phase = "running"
       /\ \E w \in Windows :
             /\ tracked_window_type(St, w) = "Managed"
             /\ window_workspace(St, w) = current_workspace
             /\ contains_key(cw, w)
             /\ ~is_window_mapped(cw, w)
             /\ MappedOf(cw) # {}
             /\ on_unmap(St, w) = R(St, << >>)

\* the invariant of C37 alone: a fullscreen mark refers to a client that is
\* flagged mapped
C37_FullscreenIsMapped ==
    \A i \in WsIds :
        workspaces[i].fullscreen # None =>
            is_window_mapped(workspaces[i], workspaces[i].fullscreen)

\* C37: in every reachable state a workspace's fullscreen mark, when set,
\* refers to a client that is flagged mapped; on_unmap of the fullscreen
\* window and go_to_workspace away from its workspace both clear the mark.
C37_FullscreenMappedAndCleared ==
    /\ C37_FullscreenIsMapped
    /\ \A i \in WsIds :
           workspaces[i].fullscreen # None =>
               get_workspace(on_unmap(St, workspaces[i].fullscreen).s, i).fullscreen
                   = None
    /\ \A j \in WsIds \ {current_workspace} :
           get_workspace(go_to_workspace(St, j).s, current_workspace).fullscreen
               = None

\* the mark is cleared by go_to_workspace away, and by on_unmap of a
\* fullscreen window that is tracked as a managed window of its workspace only
C37_ClearedWhenTrackedHere ==
    /\ \A j \in WsIds \ {current_workspace} :
           get_workspace(go_to_workspace(St, j).s, current_workspace).fullscreen
               = None
    /\ LET f == current_workspace_of(St).fullscreen
       IN (f # None /\ TrackedHere(f)) =>
              current_workspace_of(on_unmap(St, f).s).fullscreen = None

\* the state in which increase_window_weight(n) calls configure_windows
AfterIncrease(n) ==
    IF has_focused_client(St)
    THEN put_focused_client(St, increase_window_size(get_focused_client(St), n))
    ELSE St

\* increments offered to increase_window_weight, u32::MAX (-1) among them
Increments == Steps \cup {-1}

\* C38: no State operation calls generate_layout with an empty weight list or
\* with a weight of 0, so the division by the weight sum in the horizontal
\* layout never divides by zero.
C38_NoDivisionByZero ==
    \A n \in Increments :
        LET s == AfterIncrease(n)
        IN calls_generate_layout(s, s.current_workspace) =>
            LET weights == layout_weights(s, s.current_workspace)
            IN /\ weights # << >>
               /\ \A k \in DOMAIN weights : weights[k] # 0
               /\ SumSeq(weights) # 0

\* the premise alone: the weight list is never empty and holds no 0
C38_WeightsPositive ==
    \A n \in Increments :
        LET s == AfterIncrease(n)
        IN calls_generate_layout(s, s.current_workspace) =>
            LET weights == layout_weights(s, s.current_workspace)
            IN /\ weights # << >>
               /\ \A k \in DOMAIN weights : weights[k] # 0

\* what every State operation returns when it is called in the current state
OperationResults ==
    {on_map_request(St, w, t) : w \in Windows, t \in WindowTypes}
    \cup {on_destroy(St, w) : w \in Windows}
    \cup {on_unmap(St, w) : w \in Windows}
    \cup {set_focus(St, w) : w \in Windows}
    \cup {toggle_fullscreen(St)}
    \cup {focus_window(St, w, h) : w \in Windows, h \in WsArgs \cup {NoWs}}
    \cup {go_to_workspace(St, i) : i \in WsArgs}
    \cup {send_to_workspace(St, i) : i \in WsArgs}
    \cup {increase_window_weight(St, n) : n \in Steps}
    \cup {decrease_window_weight(St, n) : n \in Steps}
    \cup {increase_window_gap(St, n) : n \in Steps}
    \cup {decrease_window_gap(St, n) : n \in Steps}
    \cup {shift_focus(St, d) : d \in {-1, 1}}
    \cup {swap_window(St, d) : d \in {-1, 1}}
    \cup {cycle_layout(St)}
    \cup {startup_finalize(St, h) : h \in WsArgs \cup {NoWs}}

\* the windows named by the Focus effects of a result
FocusTargets(r) ==
    {r.effects[k].window : k \in {j \in DOMAIN r.effects : r.effects[j].tag = "Focus"}}

\* C39: every Focus(w) effect emitted by a State operation refers to a window
\* that, when the operation returns, is a client of the current workspace and
\* is flagged mapped.
C39_FocusTargetMapped ==
    \A r \in OperationResults : \A w \in FocusTargets(r) :
        is_window_mapped(current_workspace_of(r.s), w)

\* some operation emits a Focus effect
C39_Witness ==
    \E r \in OperationResults : FocusTargets(r) # {}

\* the weight a workspace holds for a window; None when it is no client of it
WeightIn(ws, window) ==
    IF \E k \in DOMAIN ws.clients : ws.clients[k].window = window
    THEN LET k == CHOOSE k \in DOMAIN ws.clients : ws.clients[k].window = window
         IN ws.clients[k].size
    ELSE None

\* send_to_workspace(i) moves a window: i is another workspace in range and
\* the current workspace has a focused client
SendMoves(i) ==
    /\ i \in WsIds
    /\ i # St.current_workspace
    /\ removed_focused_window_result(current_workspace_of(St)) # None

\* C40: send_to_workspace(i) does not carry the client's weight over: the
\* moved window arrives in workspace i as a client of weight 1 whatever its
\* weight was, and the weights of all other clients are unchanged.
C40_SendResetsWeight ==
    \A i \in WsArgs :
        SendMoves(i) =>
            LET moved == removed_focused_window_result(current_workspace_of(St))
                after == send_to_workspace(St, i).s
            IN /\ WeightIn(after.workspaces[i], moved) = 1
               /\ \A j \in WsIds : \A w \in Windows \ {moved} :
                      WeightIn(after.workspaces[j], w) = WeightIn(St.workspaces[j], w)

\* a window of weight 2 is about to be sent to another workspace
C40_Witness ==
    \E i \in WsArgs :
        /\ SendMoves(i)
        /\ WeightIn(current_workspace_of(St),
                    removed_focused_window_result(current_workspace_of(St))) = 2

====
